---------------------------- MODULE Spec2Model ----------------------------
(***************************************************************************)
(* A model of the AIGP OpenTelemetry SDK (sdks/python/aigp_otel):          *)
(*   - events.py:       governance hash, leaf hash, Merkle root, Merkle    *)
(*                      governance hash, event record creation             *)
(*                      event signing and signature verification           *)
(*   - tracestate.py:   the aigp entry of the W3C tracestate header        *)
(*   - baggage.py:      the allow-listed keys of the propagation context   *)
(*   - instrumentor.py: the dual/triple-emit dispatcher AIGPInstrumentor   *)
(*                      with its per-trace sequence counters               *)
(*                                                                         *)
(* A Python string that the code scans, concatenates, formats or orders is *)
(* a sequence of one-character strings, so that regular-expression         *)
(* matching, substring tests, concatenation, hex formatting and            *)
(* lexicographic comparison are computed character by character. A string  *)
(* that the code only stores, tests for emptiness or compares with a       *)
(* literal (a category, a severity, an identifier) is a TLA+ string.       *)
(*                                                                         *)
(* hashlib.sha256 is modelled as an ideal (collision-free) digest: the     *)
(* digest of s is s enclosed in a pair of brackets that occur in no        *)
(* hashed content, so distinct preimages have distinct digests and the     *)
(* concatenation of two digests determines both of them (as for the real,  *)
(* fixed-width hex digests). Digests are ordered as Python orders strings, *)
(* by code point.                                                          *)
(***************************************************************************)
EXTENDS Integers, Sequences, FiniteSets, TLC

VARIABLES
    pureCall,            \* the pure function call in progress: <<>> or <<[fn, args, result]>>
    _sequence_counters,  \* AIGPInstrumentor._sequence_counters: trace_id -> last number
    event_callback,      \* AIGPInstrumentor.event_callback is configured
    openlineage_callback,\* AIGPInstrumentor.openlineage_callback is configured
    frame,               \* per caller: the governance call in progress (pc and locals)
    spanStatus,          \* per span: "UNSET" or "ERROR" (span.set_status)
    emitLog,             \* every emission, in order: span event, event callback, lineage callback
    nextEventId,         \* source of fresh event ids (uuid.uuid4)
    issued,              \* per trace_id: the sequence numbers returned to callers, in order
    signatures,          \* every signing operation made so far (the ideal signature scheme)
    signing,             \* the signing scenario in progress: <<>> or <<[step, event, ...]>>
    propagation          \* the baggage scenario in progress: <<>> or <<[current, ctx, ...]>>

pureVars == <<pureCall>>
dispVars == <<_sequence_counters, event_callback, openlineage_callback, frame,
              spanStatus, emitLog, nextEventId, issued>>
signVars == <<signatures, signing>>
vars == <<pureCall, _sequence_counters, event_callback, openlineage_callback, frame,
          spanStatus, emitLog, nextEventId, issued, signatures, signing, propagation>>

-----------------------------------------------------------------------------
(* Bounds of the model *)

\* the longest resource list handed to compute_merkle_governance_hash
MaxResources == 3
\* the longest list of leaf hashes handed to _compute_merkle_root
MaxLeaves == 4
\* the number of governance calls made on one dispatcher instance
MaxCalls == 3
\* the most entries of a tracestate header handed to inject_into_tracestate
MaxEntries == 3

-----------------------------------------------------------------------------
(* Python values *)

\* Optional[T]: None, or a value
None == <<>>
Some(x) == <<x>>

\* a local name bound to the value of an expression, evaluated once:
\* Body(value)
With(value, Body(_)) == CHOOSE result \in {Body(v) : v \in {value}} : TRUE

\* a function's outcome: a returned value, or a raised exception
Returned(v) == [raised |-> FALSE, error |-> <<>>, value |-> <<v>>]
Raised(exc, msg) == [raised |-> TRUE, error |-> <<exc, msg>>, value |-> <<>>]

\* dict.get(key, default)
Get(d, key, default) == IF key \in DOMAIN d THEN d[key] ELSE default

\* str: a sequence of characters; the empty string is falsy
Lower == {"a","b","c","d","e","f","g","h","i","j","k","l","m",
          "n","o","p","q","r","s","t","u","v","w","x","y","z"}
Digit == {"0","1","2","3","4","5","6","7","8","9"}

\* the characters of the model's strings, in code point order
CodePointOrder ==
    <<"\n", " ", "-", "0","1","2","3","4","5","6","7","8","9", ":",
      "A","B","C","D","E","F","G","H","I","J","K","L","M",
      "N","O","P","Q","R","S","T","U","V","W","X","Y","Z",
      "[", "]", "_",
      "a","b","c","d","e","f","g","h","i","j","k","l","m",
      "n","o","p","q","r","s","t","u","v","w","x","y","z">>

CodePoint(ch) == CHOOSE i \in 1..Len(CodePointOrder) : CodePointOrder[i] = ch

\* Python's str <, by code point, a proper prefix first
RECURSIVE StrLess(_, _)
StrLess(a, b) ==
    IF b = <<>> THEN FALSE
    ELSE IF a = <<>> THEN TRUE
    ELSE IF Head(a) = Head(b) THEN StrLess(Tail(a), Tail(b))
    ELSE CodePoint(Head(a)) < CodePoint(Head(b))

-----------------------------------------------------------------------------
(* events.py: hash primitives *)

\* hashlib.sha256(s.encode("utf-8")).hexdigest(), an ideal digest
Sha256(s) == <<"[">> \o s \o <<"]">>

\* _RESOURCE_TYPE_PATTERN = ^[a-z][a-z0-9]*(-[a-z0-9]+)*$ as re.match applies it:
\* state "start" before the first character, "word" after a letter or digit,
\* "hyphen" after a hyphen; Python's $ matches at the end of the string and
\* also just before a newline that ends the string.
RECURSIVE PatternMatch(_, _)
PatternMatch(s, state) ==
    IF s = <<>> THEN state = "word"
    ELSE IF s = <<"\n">> /\ state = "word" THEN TRUE
    ELSE IF state = "start"
         THEN Head(s) \in Lower /\ PatternMatch(Tail(s), "word")
    ELSE IF Head(s) \in Lower \cup Digit
         THEN PatternMatch(Tail(s), "word")
    ELSE Head(s) = "-" /\ state = "word" /\ PatternMatch(Tail(s), "hyphen")

_RESOURCE_TYPE_PATTERN_match(resource_type) == PatternMatch(resource_type, "start")

compute_governance_hash(content) == Sha256(content)

\* a plausible slip: the hashable value digested without the type:name: prefix
compute_leaf_hash_unprefixed(resource_type, resource_name, content, hash_mode, content_ref) ==
    IF ~ _RESOURCE_TYPE_PATTERN_match(resource_type)
    THEN Raised("ValueError", "Invalid resource_type")
    ELSE IF hash_mode = "pointer" /\ content_ref = <<>>
    THEN Raised("ValueError", "content_ref is required when hash_mode='pointer'")
    ELSE Returned(Sha256(IF hash_mode = "pointer" THEN content_ref ELSE content))

compute_leaf_hash(resource_type, resource_name, content, hash_mode, content_ref) ==
    IF ~ _RESOURCE_TYPE_PATTERN_match(resource_type)
    THEN Raised("ValueError", "Invalid resource_type")
    ELSE IF hash_mode = "pointer" /\ content_ref = <<>>
    THEN Raised("ValueError", "content_ref is required when hash_mode='pointer'")
    ELSE LET hashable == IF hash_mode = "pointer" THEN content_ref ELSE content
             prefixed == resource_type \o <<":">> \o resource_name \o <<":">> \o hashable
         IN  Returned(Sha256(prefixed))

-----------------------------------------------------------------------------
(* events.py: Merkle engine *)

\* the inner while loop of _compute_merkle_root: pairs (i, i+1) from index i
\* (0-based, as in the source) on; yields the i it stops at and next_level
RECURSIVE PairLoop(_, _, _)
PairLoop(level, i, next_level) ==
    IF i < Len(level) - 1
    THEN LET combined == level[i + 1] \o level[i + 2]
             parent == Sha256(combined)
         IN  PairLoop(level, i + 2, Append(next_level, parent))
    ELSE [i |-> i, next_level |-> next_level]

\* a plausible slip: the odd node paired with a copy of itself (Bitcoin style)
NextLevel_duplicating(level) ==
    LET paired == PairLoop(level, 0, <<>>)
    IN  IF paired.i = Len(level) - 1
        THEN Append(paired.next_level,
                    Sha256(level[paired.i + 1] \o level[paired.i + 1]))
        ELSE paired.next_level

\* one pass of the outer while loop body: the next level
NextLevel(level) ==
    LET paired == PairLoop(level, 0, <<>>)
    IN  IF paired.i = Len(level) - 1
        THEN Append(paired.next_level, level[paired.i + 1])
        ELSE paired.next_level

\* the outer while loop
RECURSIVE LevelLoop(_)
LevelLoop(level) == IF Len(level) > 1 THEN LevelLoop(NextLevel(level)) ELSE level[1]

_compute_merkle_root(sorted_hashes) ==
    IF Len(sorted_hashes) = 0
    THEN Raised("ValueError", "Cannot compute Merkle root of empty list")
    ELSE IF Len(sorted_hashes) = 1
    THEN Returned(sorted_hashes[1])
    ELSE Returned(LevelLoop(sorted_hashes))

\* a resource is a tuple (type, name, content) or a dict
TupleResource(t, n, c) == [form |-> "tuple", items |-> <<t, n, c>>, fields |-> <<>>]
DictResource(d) == [form |-> "dict", items |-> <<>>, fields |-> <<d>>]

_normalize_resource(resource) ==
    IF resource.form = "tuple"
    THEN [resource_type |-> resource.items[1],
          resource_name |-> resource.items[2],
          content       |-> resource.items[3],
          hash_mode     |-> "content",
          content_ref   |-> <<>>]
    ELSE LET d == resource.fields[1]
         IN  [resource_type |-> d["resource_type"],
              resource_name |-> d["resource_name"],
              content       |-> Get(d, "content", <<>>),
              hash_mode     |-> Get(d, "hash_mode", "content"),
              content_ref   |-> Get(d, "content_ref", <<>>)]

\* one leaf dict; hash_mode and content_ref are recorded when non-default
\* (None stands for an absent key)
Leaf(entry, leaf_hash) ==
    [resource_type |-> entry.resource_type,
     resource_name |-> entry.resource_name,
     hash          |-> leaf_hash,
     hash_mode     |-> IF entry.hash_mode # "content" THEN Some(entry.hash_mode) ELSE None,
     content_ref   |-> IF entry.content_ref # <<>> THEN Some(entry.content_ref) ELSE None]

\* the for loop over normalized: the leaves in input order, or the first
\* exception compute_leaf_hash raises
RECURSIVE LeafLoop(_, _)
LeafLoop(normalized, leaves) ==
    IF normalized = <<>> THEN Returned(leaves)
    ELSE LET entry == Head(normalized)
             leaf_hash == compute_leaf_hash(entry.resource_type, entry.resource_name,
                                            entry.content, entry.hash_mode,
                                            entry.content_ref)
         IN  IF leaf_hash.raised THEN leaf_hash
             ELSE LeafLoop(Tail(normalized),
                           Append(leaves, Leaf(entry, leaf_hash.value[1])))

\* list.sort(key=hash): a stable sort, ascending by leaf["hash"]
\* a plausible slip: a leaf whose hash is already present is not inserted
InsertLeaf_merging_equal(sorted, leaf) ==
    IF \E i \in 1..Len(sorted) : sorted[i].hash = leaf.hash THEN sorted
    ELSE LET k == Cardinality({i \in 1..Len(sorted) : ~StrLess(leaf.hash, sorted[i].hash)})
         IN  SubSeq(sorted, 1, k) \o <<leaf>> \o SubSeq(sorted, k + 1, Len(sorted))

RECURSIVE InsertLeaf(_, _)
InsertLeaf(sorted, leaf) ==
    IF sorted = <<>> THEN <<leaf>>
    ELSE IF StrLess(leaf.hash, Head(sorted).hash)
         THEN <<leaf>> \o sorted
         ELSE <<Head(sorted)>> \o InsertLeaf(Tail(sorted), leaf)

RECURSIVE SortLoop(_, _)
SortLoop(leaves, sorted) ==
    IF leaves = <<>> THEN sorted
    ELSE SortLoop(Tail(leaves), InsertLeaf(sorted, Head(leaves)))

\* a plausible slip: the leaves left in input order
SortLeaves_unsorted(leaves) == leaves

SortLeaves(leaves) == SortLoop(leaves, <<>>)

Hashes(leaves) == [i \in 1..Len(leaves) |-> leaves[i].hash]

\* the single-resource branch: a flat hash of the hashable content, no tree
FlatBranch(entry) ==
    LET flat_hash == IF entry.hash_mode = "pointer"
                     THEN compute_governance_hash(entry.content_ref)
                     ELSE compute_governance_hash(entry.content)
    IN  Returned(<<flat_hash, None>>)

\* the multiple-resources branch: leaf hashes, sorted, folded to the root
MerkleBranch(normalized) ==
    LET looped == LeafLoop(normalized, <<>>)
    IN  IF looped.raised THEN looped
        ELSE LET leaves == SortLeaves(looped.value[1])
                 sorted_hashes == Hashes(leaves)
                 root == _compute_merkle_root(sorted_hashes)
                 merkle_tree == [algorithm  |-> "sha256",
                                 leaf_count |-> Len(leaves),
                                 leaves     |-> leaves]
             IN  IF root.raised THEN root
                 ELSE Returned(<<root.value[1], Some(merkle_tree)>>)

\* a plausible slip: no single-resource branch, one resource hashed as a leaf
compute_merkle_governance_hash_always_tree(resources) ==
    IF resources = <<>>
    THEN Raised("ValueError", "At least one resource is required")
    ELSE MerkleBranch([i \in 1..Len(resources) |-> _normalize_resource(resources[i])])

\* returns (root_hash, merkle_tree or None), or raises
compute_merkle_governance_hash(resources) ==
    IF resources = <<>>
    THEN Raised("ValueError", "At least one resource is required")
    ELSE LET normalized == [i \in 1..Len(resources) |-> _normalize_resource(resources[i])]
         IN  IF Len(normalized) = 1
             THEN FlatBranch(normalized[1])
             ELSE MerkleBranch(normalized)

-----------------------------------------------------------------------------
(* String operations of the dispatcher *)

\* sub in s
Contains(s, sub) ==
    \E i \in 0..(Len(s) - Len(sub)) : SubSeq(s, i + 1, i + Len(sub)) = sub

HexChars == <<"0","1","2","3","4","5","6","7","8","9","a","b","c","d","e","f">>

RECURSIVE HexDigits(_)
HexDigits(n) ==
    IF n < 16 THEN <<HexChars[n + 1]>>
    ELSE HexDigits(n \div 16) \o <<HexChars[(n % 16) + 1]>>

\* s padded on the left with zeros to the width
ZeroPad(s, width) ==
    IF Len(s) >= width THEN s ELSE [i \in 1..(width - Len(s)) |-> "0"] \o s

\* format(n, "0<width>x")
Format(n, width) == ZeroPad(HexDigits(n), width)

\* event types, and the words the dispatcher looks for in them
INJECT_SUCCESS == <<"I","N","J","E","C","T","_","S","U","C","C","E","S","S">>
INJECT_DENIED == <<"I","N","J","E","C","T","_","D","E","N","I","E","D">>
POLICY_VIOLATION == <<"P","O","L","I","C","Y","_","V","I","O","L","A","T","I","O","N">>
A2A_CALL == <<"A","2","A","_","C","A","L","L">>
GOVERNANCE_PROOF == <<"G","O","V","E","R","N","A","N","C","E","_","P","R","O","O","F">>
INFERENCE_BLOCKED == <<"I","N","F","E","R","E","N","C","E","_","B","L","O","C","K","E","D">>
DENIED == <<"D","E","N","I","E","D">>
VIOLATION == <<"V","I","O","L","A","T","I","O","N">>
BLOCKED == <<"B","L","O","C","K","E","D">>

\* "DENIED" in event_type or "VIOLATION" in event_type or "BLOCKED" in event_type
IsDenialType(event_type) ==
    \/ Contains(event_type, DENIED)
    \/ Contains(event_type, VIOLATION)
    \/ Contains(event_type, BLOCKED)

-----------------------------------------------------------------------------
(* attributes.py: the constants class AIGPAttributes defines *)

AIGPAttributes ==
    [ AGENT_ID |-> "aigp.agent.id",
      AGENT_NAME |-> "aigp.agent.name",
      ORG_ID |-> "aigp.org.id",
      ORG_NAME |-> "aigp.org.name",
      EVENT_ID |-> "aigp.event.id",
      EVENT_TYPE |-> "aigp.event.type",
      EVENT_CATEGORY |-> "aigp.event.category",
      GOVERNANCE_HASH |-> "aigp.governance.hash",
      GOVERNANCE_HASH_TYPE |-> "aigp.governance.hash_type",
      DATA_CLASSIFICATION |-> "aigp.data.classification",
      ENFORCEMENT_RESULT |-> "aigp.enforcement.result",
      POLICY_NAME |-> "aigp.policy.name",
      POLICY_VERSION |-> "aigp.policy.version",
      POLICY_ID |-> "aigp.policy.id",
      PROMPT_NAME |-> "aigp.prompt.name",
      PROMPT_VERSION |-> "aigp.prompt.version",
      PROMPT_ID |-> "aigp.prompt.id",
      POLICIES_NAMES |-> "aigp.policies.names",
      POLICIES_VERSIONS |-> "aigp.policies.versions",
      PROMPTS_NAMES |-> "aigp.prompts.names",
      PROMPTS_VERSIONS |-> "aigp.prompts.versions",
      TOOLS_NAMES |-> "aigp.tools.names",
      CONTEXTS_NAMES |-> "aigp.contexts.names",
      LINEAGES_NAMES |-> "aigp.lineages.names",
      MERKLE_LEAF_COUNT |-> "aigp.governance.merkle.leaf_count",
      SEVERITY |-> "aigp.severity",
      VIOLATION_TYPE |-> "aigp.violation.type",
      DENIAL_REASON |-> "aigp.denial.reason",
      EVENT_INJECT_SUCCESS |-> "aigp.inject.success",
      EVENT_INJECT_DENIED |-> "aigp.inject.denied",
      EVENT_PROMPT_USED |-> "aigp.prompt.used",
      EVENT_PROMPT_DENIED |-> "aigp.prompt.denied",
      EVENT_POLICY_VIOLATION |-> "aigp.policy.violation",
      EVENT_GOVERNANCE_PROOF |-> "aigp.governance.proof",
      EVENT_A2A_CALL |-> "aigp.a2a.call",
      ENFORCEMENT_ALLOWED |-> "allowed",
      ENFORCEMENT_DENIED |-> "denied",
      CLASSIFICATION_PUBLIC |-> "public",
      CLASSIFICATION_INTERNAL |-> "internal",
      CLASSIFICATION_CONFIDENTIAL |-> "confidential",
      CLASSIFICATION_RESTRICTED |-> "restricted",
      CLASSIFICATION_ABBREV |->
        [public |-> "pub", internal |-> "int", confidential |-> "con", restricted |-> "res"] ]

\* AIGPAttributes.<name>: the constant, or AttributeError for a name the
\* class does not define
Attribute(name) ==
    IF name \in DOMAIN AIGPAttributes
    THEN Returned(AIGPAttributes[name])
    ELSE Raised("AttributeError", name)

\* the statements "if <cond>: attrs[AIGPAttributes.<name>] = <value>" from
\* the i-th on, in order: the attributes set, or the first AttributeError
RECURSIVE SetAttrsFrom(_, _, _)
SetAttrsFrom(statements, i, attrs) ==
    IF i > Len(statements) THEN Returned(attrs)
    ELSE LET st == statements[i]
             key == Attribute(st.name)
         IN  IF ~ st.cond THEN SetAttrsFrom(statements, i + 1, attrs)
             ELSE IF key.raised THEN key
             ELSE SetAttrsFrom(statements, i + 1, (key.value[1] :> st.value) @@ attrs)

SetAttrs(statements, attrs) == SetAttrsFrom(statements, 1, attrs)

\* one such statement
SetAttr(cond, name, value) == [cond |-> cond, name |-> name, value |-> value]

-----------------------------------------------------------------------------
(* events.py: the event record *)

\* str(uuid.uuid4()): the n-th fresh identifier
uuid4(n) == "e" \o ToString(n)

\* the defaults of create_aigp_event's optional parameters
EventDefaults ==
    [governance_hash |-> <<>>, span_id |-> <<>>, parent_span_id |-> <<>>,
     trace_flags |-> <<>>, agent_name |-> "", org_id |-> "", org_name |-> "",
     policy_id |-> "", policy_name |-> <<>>, policy_version |-> 0,
     prompt_id |-> "", prompt_name |-> <<>>, prompt_version |-> 0,
     hash_type |-> "sha256", data_classification |-> "",
     template_rendered |-> FALSE, denial_reason |-> "", violation_type |-> "",
     severity |-> "", source_ip |-> "", request_method |-> "",
     request_path |-> "", query_hash |-> <<>>, previous_hash |-> <<>>,
     annotations |-> None, event_signature |-> <<>>, signature_key_id |-> "",
     sequence_number |-> 0, causality_ref |-> "", spec_version |-> "0.8.0",
     governance_merkle_tree |-> None]

\* event = {...}: the dict literal, a holding the value of every parameter;
\* event_id and now are the values uuid4() and datetime.now() yield. The
\* empty dict and None are both <<>>, so "annotations or {}" is the
\* argument itself.
event_literal(a, event_id, now) ==
          [event_id |-> event_id, event_type |-> a.event_type,
           event_category |-> a.event_category, event_time |-> now,
           agent_id |-> a.agent_id, governance_hash |-> a.governance_hash,
           trace_id |-> a.trace_id, span_id |-> a.span_id,
           parent_span_id |-> a.parent_span_id, trace_flags |-> a.trace_flags,
           agent_name |-> a.agent_name, org_id |-> a.org_id,
           org_name |-> a.org_name, policy_id |-> a.policy_id,
           policy_name |-> a.policy_name, policy_version |-> a.policy_version,
           prompt_id |-> a.prompt_id, prompt_name |-> a.prompt_name,
           prompt_version |-> a.prompt_version, hash_type |-> a.hash_type,
           data_classification |-> a.data_classification,
           template_rendered |-> a.template_rendered,
           denial_reason |-> a.denial_reason, violation_type |-> a.violation_type,
           severity |-> a.severity, source_ip |-> a.source_ip,
           request_method |-> a.request_method, request_path |-> a.request_path,
           query_hash |-> a.query_hash, previous_hash |-> a.previous_hash,
           annotations |-> a.annotations, event_signature |-> a.event_signature,
           signature_key_id |-> a.signature_key_id,
           sequence_number |-> a.sequence_number,
           causality_ref |-> a.causality_ref, spec_version |-> a.spec_version]

\* a plausible slip: the tree is stored whether or not one was given
create_aigp_event_always_tree(kw, event_id, now) ==
    LET a == kw @@ EventDefaults
    IN  event_literal(a, event_id, now)
            @@ [governance_merkle_tree |-> a.governance_merkle_tree]

\* kw holds the arguments the caller supplies
create_aigp_event(kw, event_id, now) ==
    LET a == kw @@ EventDefaults
        event == event_literal(a, event_id, now)
    IN  IF a.governance_merkle_tree # None
        THEN event @@ [governance_merkle_tree |-> a.governance_merkle_tree[1]]
        ELSE event

-----------------------------------------------------------------------------
(* events.py: bytes, base64url and canonical JSON *)

\* bytes are sequences of integers 0..255. The printable ASCII characters,
\* in code point order from 32 (space) to 126 (tilde); the grave accent (96),
\* which a TLA+ string cannot hold, is left as a placeholder and occurs in no input
Ascii ==
    <<" ", "!", "\"", "#", "$", "%", "&", "'", "(", ")", "*", "+", ",", "-", ".", "/",
      "0", "1", "2", "3", "4", "5", "6", "7", "8", "9", ":", ";", "<", "=", ">", "?",
      "@", "A", "B", "C", "D", "E", "F", "G", "H", "I", "J", "K", "L", "M", "N", "O",
      "P", "Q", "R", "S", "T", "U", "V", "W", "X", "Y", "Z", "[", "\\", "]", "^", "_",
      "(96)", "a", "b", "c", "d", "e", "f", "g", "h", "i", "j", "k", "l", "m", "n", "o",
      "p", "q", "r", "s", "t", "u", "v", "w", "x", "y", "z", "{", "|", "}", "~">>

\* ord(ch) of a printable ASCII character
Ord == [ch \in {Ascii[i] : i \in 1..Len(Ascii)} |->
           31 + (CHOOSE i \in 1..Len(Ascii) : Ascii[i] = ch)]

\* str.encode("utf-8") / .encode("ascii") of an ASCII string: one byte per
\* character, its code point
encode(s) == [i \in 1..Len(s) |-> Ord[s[i]]]

\* the alphabet of base64.urlsafe_b64encode: value v is UrlSafeAlphabet[v + 1]
UrlSafeAlphabet ==
    <<"A", "B", "C", "D", "E", "F", "G", "H", "I", "J", "K", "L", "M", "N", "O", "P",
      "Q", "R", "S", "T", "U", "V", "W", "X", "Y", "Z", "a", "b", "c", "d", "e", "f",
      "g", "h", "i", "j", "k", "l", "m", "n", "o", "p", "q", "r", "s", "t", "u", "v",
      "w", "x", "y", "z", "0", "1", "2", "3", "4", "5", "6", "7", "8", "9", "-", "_">>

Pow(b, e) == IF e = 0 THEN 1 ELSE IF e = 1 THEN b ELSE IF e = 2 THEN b * b ELSE b * b * b

\* byte i of data, or 0 past its end (the zero bits base64 fills a short group with)
ByteAt(data, i) == IF i <= Len(data) THEN data[i] ELSE 0

\* the k-th character (k = 1, 2, ...) of the base64 text of data: the
\* 6-bit value at position (k - 1) % 4 of the 24-bit group (k - 1) \div 4
Sextet(data, k) ==
    LET g == (k - 1) \div 4
        v == ByteAt(data, 3 * g + 1) * 65536 + ByteAt(data, 3 * g + 2) * 256
               + ByteAt(data, 3 * g + 3)
    IN  (v \div Pow(64, 3 - ((k - 1) % 4))) % 64

\* base64.urlsafe_b64encode(data).rstrip(b"=").decode("ascii"): the padded
\* text has 4 characters per group of 3 bytes; without the padding,
\* (4 * len + 2) \div 3 characters remain
_base64url_encode(data) ==
    [k \in 1..((4 * Len(data) + 2) \div 3) |-> UrlSafeAlphabet[Sextet(data, k) + 1]]

\* the 6-bit value of a character for base64.urlsafe_b64decode, which
\* translates - and _ to + and / and so accepts both spellings; 64 for a
\* character outside the alphabet
Base64Value(ch) ==
    IF ch = "+" THEN 62
    ELSE IF ch = "/" THEN 63
    ELSE IF \E v \in 1..64 : UrlSafeAlphabet[v] = ch
    THEN (CHOOSE v \in 1..64 : UrlSafeAlphabet[v] = ch) - 1
    ELSE 64

\* binascii.a2b_base64 in its default (non-strict) mode: a character outside
\* the alphabet is skipped; a padding character ends the data once the
\* current group holds two or more values and the padding seen since the
\* last value completes the group, and is skipped otherwise; data that ends
\* inside a group raises binascii.Error. Returns the 6-bit values read.
a2b_scan(s) ==
    LET data == {i \in 1..Len(s) : s[i] # "=" /\ Base64Value(s[i]) # 64}
        quad_pos(i) == Cardinality({j \in data : j < i}) % 4
        pads(i) == Cardinality({j \in 1..i : s[j] = "=" /\ \A d \in data : ~(j < d /\ d < i)})
        done == {i \in 1..Len(s) : s[i] = "=" /\ quad_pos(i) >= 2 /\ quad_pos(i) + pads(i) >= 4}
        end == IF done = {} THEN Len(s) + 1 ELSE CHOOSE i \in done : \A j \in done : i <= j
    IN  With({i \in data : i < end}, LAMBDA read :
             IF done = {} /\ Cardinality(read) % 4 = 1
             THEN Raised("binascii.Error",
                         "number of data characters cannot be 1 more than a multiple of 4")
             ELSE IF done = {} /\ Cardinality(read) % 4 # 0
             THEN Raised("binascii.Error", "Incorrect padding")
             ELSE With([i \in read |-> Cardinality({j \in read : j < i})], LAMBDA rank :
                       Returned([k \in 1..Cardinality(read) |->
                                    Base64Value(s[CHOOSE i \in read : rank[i] = k - 1])])))

ValueAt(values, i) == IF i <= Len(values) THEN values[i] ELSE 0

\* the j-th byte (j = 1, 2, ...) that a sequence of 6-bit values holds
Octet(values, j) ==
    LET g == (j - 1) \div 3
        v == ValueAt(values, 4 * g + 1) * 262144 + ValueAt(values, 4 * g + 2) * 4096
               + ValueAt(values, 4 * g + 3) * 64 + ValueAt(values, 4 * g + 4)
    IN  (v \div Pow(256, 2 - ((j - 1) % 3))) % 256

\* base64.urlsafe_b64decode(s): the bytes, or binascii.Error
urlsafe_b64decode(s) ==
    LET scanned == a2b_scan(s)
    IN  IF scanned.raised THEN scanned
        ELSE Returned([j \in 1..((3 * Len(scanned.value[1])) \div 4) |->
                          Octet(scanned.value[1], j)])

\* a plausible slip: the padding that signing stripped is not restored
_base64url_decode_unpadded(s) == urlsafe_b64decode(s)

\* s += "=" * (4 - len(s) % 4); return base64.urlsafe_b64decode(s)
_base64url_decode(s) ==
    urlsafe_b64decode(s \o [i \in 1..(4 - (Len(s) % 4)) |-> "="])

\* the characters of the strings that the model holds as TLA+ strings (field
\* names, identifiers, tags) and that the signing code serialises
StrChars ==
    ("event_id" :> <<"e", "v", "e", "n", "t", "_", "i", "d">>) @@
    ("event_type" :> <<"e", "v", "e", "n", "t", "_", "t", "y", "p", "e">>) @@
    ("event_category" :> <<"e", "v", "e", "n", "t", "_", "c", "a", "t", "e", "g", "o", "r", "y">>) @@
    ("event_time" :> <<"e", "v", "e", "n", "t", "_", "t", "i", "m", "e">>) @@
    ("agent_id" :> <<"a", "g", "e", "n", "t", "_", "i", "d">>) @@
    ("governance_hash" :> <<"g", "o", "v", "e", "r", "n", "a", "n", "c", "e", "_", "h", "a", "s", "h">>) @@
    ("trace_id" :> <<"t", "r", "a", "c", "e", "_", "i", "d">>) @@
    ("span_id" :> <<"s", "p", "a", "n", "_", "i", "d">>) @@
    ("parent_span_id" :> <<"p", "a", "r", "e", "n", "t", "_", "s", "p", "a", "n", "_", "i", "d">>) @@
    ("trace_flags" :> <<"t", "r", "a", "c", "e", "_", "f", "l", "a", "g", "s">>) @@
    ("agent_name" :> <<"a", "g", "e", "n", "t", "_", "n", "a", "m", "e">>) @@
    ("org_id" :> <<"o", "r", "g", "_", "i", "d">>) @@
    ("org_name" :> <<"o", "r", "g", "_", "n", "a", "m", "e">>) @@
    ("policy_id" :> <<"p", "o", "l", "i", "c", "y", "_", "i", "d">>) @@
    ("policy_name" :> <<"p", "o", "l", "i", "c", "y", "_", "n", "a", "m", "e">>) @@
    ("policy_version" :> <<"p", "o", "l", "i", "c", "y", "_", "v", "e", "r", "s", "i", "o", "n">>) @@
    ("prompt_id" :> <<"p", "r", "o", "m", "p", "t", "_", "i", "d">>) @@
    ("prompt_name" :> <<"p", "r", "o", "m", "p", "t", "_", "n", "a", "m", "e">>) @@
    ("prompt_version" :> <<"p", "r", "o", "m", "p", "t", "_", "v", "e", "r", "s", "i", "o", "n">>) @@
    ("hash_type" :> <<"h", "a", "s", "h", "_", "t", "y", "p", "e">>) @@
    ("data_classification" :> <<"d", "a", "t", "a", "_", "c", "l", "a", "s", "s", "i", "f", "i", "c", "a", "t", "i", "o", "n">>) @@
    ("template_rendered" :> <<"t", "e", "m", "p", "l", "a", "t", "e", "_", "r", "e", "n", "d", "e", "r", "e", "d">>) @@
    ("denial_reason" :> <<"d", "e", "n", "i", "a", "l", "_", "r", "e", "a", "s", "o", "n">>) @@
    ("violation_type" :> <<"v", "i", "o", "l", "a", "t", "i", "o", "n", "_", "t", "y", "p", "e">>) @@
    ("severity" :> <<"s", "e", "v", "e", "r", "i", "t", "y">>) @@
    ("source_ip" :> <<"s", "o", "u", "r", "c", "e", "_", "i", "p">>) @@
    ("request_method" :> <<"r", "e", "q", "u", "e", "s", "t", "_", "m", "e", "t", "h", "o", "d">>) @@
    ("request_path" :> <<"r", "e", "q", "u", "e", "s", "t", "_", "p", "a", "t", "h">>) @@
    ("query_hash" :> <<"q", "u", "e", "r", "y", "_", "h", "a", "s", "h">>) @@
    ("previous_hash" :> <<"p", "r", "e", "v", "i", "o", "u", "s", "_", "h", "a", "s", "h">>) @@
    ("annotations" :> <<"a", "n", "n", "o", "t", "a", "t", "i", "o", "n", "s">>) @@
    ("event_signature" :> <<"e", "v", "e", "n", "t", "_", "s", "i", "g", "n", "a", "t", "u", "r", "e">>) @@
    ("signature_key_id" :> <<"s", "i", "g", "n", "a", "t", "u", "r", "e", "_", "k", "e", "y", "_", "i", "d">>) @@
    ("sequence_number" :> <<"s", "e", "q", "u", "e", "n", "c", "e", "_", "n", "u", "m", "b", "e", "r">>) @@
    ("causality_ref" :> <<"c", "a", "u", "s", "a", "l", "i", "t", "y", "_", "r", "e", "f">>) @@
    ("spec_version" :> <<"s", "p", "e", "c", "_", "v", "e", "r", "s", "i", "o", "n">>) @@
    ("governance_merkle_tree" :> <<"g", "o", "v", "e", "r", "n", "a", "n", "c", "e", "_", "m", "e", "r", "k", "l", "e", "_", "t", "r", "e", "e">>) @@
    ("alg" :> <<"a", "l", "g">>) @@
    ("kid" :> <<"k", "i", "d">>) @@
    ("typ" :> <<"t", "y", "p">>) @@
    ("ES256" :> <<"E", "S", "2", "5", "6">>) @@
    ("JWT" :> <<"J", "W", "T">>) @@
    ("" :> <<>>) @@
    ("sha256" :> <<"s", "h", "a", "2", "5", "6">>) @@
    ("0.8.0" :> <<"0", ".", "8", ".", "0">>) @@
    ("now" :> <<"n", "o", "w">>) @@
    ("e1" :> <<"e", "1">>) @@
    ("e2" :> <<"e", "2">>) @@
    ("e3" :> <<"e", "3">>) @@
    ("e4" :> <<"e", "4">>) @@
    ("inject" :> <<"i", "n", "j", "e", "c", "t">>) @@
    ("a2a" :> <<"a", "2", "a">>) @@
    ("agent.x" :> <<"a", "g", "e", "n", "t", ".", "x">>) @@
    ("key.a" :> <<"k", "e", "y", ".", "a">>) @@
    ("key.old" :> <<"k", "e", "y", ".", "o", "l", "d">>) @@
    ("note" :> <<"n", "o", "t", "e">>) @@
    ("tampered" :> <<"t", "a", "m", "p", "e", "r", "e", "d">>)

\* str(n) of a non-negative integer
RECURSIVE Decimal(_)
Decimal(n) ==
    IF n < 10 THEN <<Ascii[Ord["0"] - 31 + n]>>
    ELSE Decimal(n \div 10) \o <<Ascii[Ord["0"] - 31 + (n % 10)]>>

\* json.dumps of a str: quoted, with the quote, the backslash and the
\* newline escaped
json_string(s) ==
    LET escaped(ch) == IF ch = "\"" THEN <<"\\", "\"">>
                       ELSE IF ch = "\\" THEN <<"\\", "\\">>
                       ELSE IF ch = "\n" THEN <<"\\", "n">>
                       ELSE <<ch>>
        Loop[i \in 0..Len(s)] == IF i = 0 THEN <<>> ELSE Loop[i - 1] \o escaped(s[i])
    IN  <<"\"">> \o Loop[Len(s)] \o <<"\"">>

\* sort_keys=True: the keys of a dict in ascending order of their characters
SortKeys(keys) ==
    With([k \in keys |-> Cardinality({k2 \in keys : StrLess(StrChars[k2], StrChars[k])})],
         LAMBDA rank : [i \in 1..Cardinality(keys) |-> CHOOSE k \in keys : rank[k] = i - 1])

\* json.dumps(d, sort_keys=True, separators=(",", ":")) of a dict whose
\* values item(k) serialises: {"k1":v1,"k2":v2} without whitespace
json_object(d, item(_)) ==
    With(SortKeys(DOMAIN d), LAMBDA keys :
         LET Loop[i \in 0..Len(keys)] ==
                 IF i = 0 THEN <<>>
                 ELSE Loop[i - 1] \o (IF i = 1 THEN <<>> ELSE <<",">>)
                        \o json_string(StrChars[keys[i]]) \o <<":">> \o item(keys[i])
         IN  <<"{">> \o Loop[Len(keys)] \o <<"}">>)

\* the Python type of the value each field of an event record holds: a str
\* the model holds as a TLA+ string, a str held as characters, an int, a
\* bool, or a dict of str (annotations)
FieldKind ==
    [event_id |-> "str", event_type |-> "chars", event_category |-> "str",
     event_time |-> "str", agent_id |-> "str", governance_hash |-> "chars",
     trace_id |-> "chars", span_id |-> "chars", parent_span_id |-> "chars",
     trace_flags |-> "chars", agent_name |-> "str", org_id |-> "str",
     org_name |-> "str", policy_id |-> "str", policy_name |-> "chars",
     policy_version |-> "int", prompt_id |-> "str", prompt_name |-> "chars",
     prompt_version |-> "int", hash_type |-> "str", data_classification |-> "str",
     template_rendered |-> "bool", denial_reason |-> "str", violation_type |-> "str",
     severity |-> "str", source_ip |-> "str", request_method |-> "str",
     request_path |-> "str", query_hash |-> "chars", previous_hash |-> "chars",
     annotations |-> "dict", event_signature |-> "chars", signature_key_id |-> "str",
     sequence_number |-> "int", causality_ref |-> "str", spec_version |-> "str"]

\* json.dumps of the value of one field of an event
json_value(kind, v) ==
    CASE kind = "str" -> json_string(StrChars[v])
      [] kind = "chars" -> json_string(v)
      [] kind = "int" -> Decimal(v)
      [] kind = "bool" -> IF v THEN <<"t","r","u","e">> ELSE <<"f","a","l","s","e">>
      [] kind = "dict" -> json_object(v, LAMBDA k : json_string(v[k]))

\* json.dumps(event, sort_keys=True, separators=(",", ":"))
json_dumps(event) ==
    json_object(event, LAMBDA k : json_value(FieldKind[k], event[k]))

\* a plausible slip: only event_signature is left out of the canonical form
_canonical_json_keeping_key_id(event) ==
    LET filtered == [k \in DOMAIN event \ {"event_signature"} |-> event[k]]
    IN  encode(json_dumps(filtered))

\* a plausible slip: annotations left out of the canonical form as well
_canonical_json_without_annotations(event) ==
    LET filtered == [k \in DOMAIN event
                          \ {"event_signature", "signature_key_id", "annotations"} |->
                        event[k]]
    IN  encode(json_dumps(filtered))

\* the event without event_signature and signature_key_id, as sorted-key
\* JSON without whitespace, in bytes
_canonical_json(event) ==
    LET filtered == [k \in DOMAIN event \ {"event_signature", "signature_key_id"} |->
                        event[k]]
    IN  encode(json_dumps(filtered))

-----------------------------------------------------------------------------
(* events.py: event signing, JWS Compact Serialization with ES256 *)

\* PEM-encoded keys: the private and the public key of a P-256 key pair, and
\* bytes that are no key at all
PrivateKeyPem(pair) == [pem |-> "EC PRIVATE KEY", pair |-> pair]
PublicKeyPem(pair) == [pem |-> "PUBLIC KEY", pair |-> pair]
NotPem == [pem |-> "", pair |-> 0]

\* serialization.load_pem_private_key(data, password=None)
load_pem_private_key(data) ==
    IF data.pem = "EC PRIVATE KEY" THEN Returned(data.pair)
    ELSE Raised("ValueError", "Could not deserialize key data")

\* serialization.load_pem_public_key(data)
load_pem_public_key(data) ==
    IF data.pem = "PUBLIC KEY" THEN Returned(data.pair)
    ELSE Raised("ValueError", "Could not deserialize key data")

\* ECDSA with SHA-256 over P-256 as an ideal signature scheme: a signature is
\* the pair (r, s) the signer produced, where r numbers the signing operation
\* and s names the key pair; it verifies under a public key and a message
\* exactly when the private key of that pair signed that very message.
\* signed is the sequence of all signing operations made so far.
ecdsa_sign(pair, message, signed) ==
    [r |-> Len(signed) + 1, s |-> pair, message |-> message]

ecdsa_verify(pair, r, s, message, signed) ==
    /\ r \in 1..Len(signed)
    /\ signed[r] = [r |-> r, s |-> s, message |-> message]
    /\ s = pair

\* int.to_bytes(length, byteorder="big"), for the integers below 2^24 that
\* the ideal scheme issues
to_bytes(n, length) ==
    [i \in 1..length |-> IF length - i >= 3 THEN 0 ELSE (n \div Pow(256, length - i)) % 256]

\* int.from_bytes(data, byteorder="big"); an integer of 2^24 or more, which
\* no signature of the ideal scheme carries, is -1
from_bytes(data) ==
    LET n == Len(data)
    IN  IF \E i \in 1..(n - 3) : data[i] # 0 THEN -1
        ELSE ByteAt(data, n - 2) * 65536 + ByteAt(data, n - 1) * 256 + ByteAt(data, n)

\* str.split(sep) for a one-character separator: the segments between its
\* occurrences
Split(s, sep) ==
    LET at == {i \in 1..Len(s) : s[i] = sep}
        cut(k) == IF k = 0 THEN 0
                  ELSE IF k = Cardinality(at) + 1 THEN Len(s) + 1
                  ELSE CHOOSE i \in at : Cardinality({j \in at : j < i}) = k - 1
    IN  [k \in 1..(Cardinality(at) + 1) |-> SubSeq(s, cut(k - 1) + 1, cut(k) - 1)]

\* Python objects are held by reference: heap maps a reference to the dict
\* it denotes. A plausible slip for dict(event): the same object under a
\* second name
dict_aliasing(heap, ref) == [heap |-> heap, ref |-> ref]

\* dict(event): a new dict with the items of the dict ref denotes
dict(heap, ref) == [heap |-> ("signed_event" :> heap[ref]) @@ heap, ref |-> "signed_event"]

\* d[key] = value
setitem(heap, ref, key, value) == [heap EXCEPT ![ref] = (key :> value) @@ @]

\* {"alg": "ES256", "typ": "JWT"} with "kid" when key_id is not empty, as
\* sorted-key JSON without whitespace
jws_header(key_id) ==
    LET header == IF key_id # ""
                  THEN [alg |-> "ES256", typ |-> "JWT", kid |-> key_id]
                  ELSE [alg |-> "ES256", typ |-> "JWT"]
    IN  json_object(header, LAMBDA k : json_string(StrChars[header[k]]))

\* sign_event(event, private_key_pem, key_id) in a runtime where the
\* cryptography package is installed or not: the heap after the call, the
\* outcome (a reference to the signed event, or an exception) and the
\* signing operation made, if any
sign_event(installed, heap, event, private_key_pem, key_id, signed) ==
    IF ~installed
    THEN [heap |-> heap, made |-> <<>>,
          outcome |-> Raised("ImportError", "The 'cryptography' package is required")]
    ELSE LET private_key == load_pem_private_key(private_key_pem)
         IN  IF private_key.raised
             THEN [heap |-> heap, made |-> <<>>, outcome |-> private_key]
             ELSE LET header_b64 == _base64url_encode(encode(jws_header(key_id)))
                      payload_b64 == _base64url_encode(_canonical_json(heap[event]))
                      signing_input == encode(header_b64 \o <<".">> \o payload_b64)
                      der_signature == ecdsa_sign(private_key.value[1], signing_input, signed)
                      r_bytes == to_bytes(der_signature.r, 32)
                      s_bytes == to_bytes(der_signature.s, 32)
                      signature_b64 == _base64url_encode(r_bytes \o s_bytes)
                      jws_compact == header_b64 \o <<".">> \o payload_b64
                                        \o <<".">> \o signature_b64
                      signed_event == dict(heap, event)
                      heap1 == setitem(signed_event.heap, signed_event.ref,
                                       "event_signature", jws_compact)
                      heap2 == setitem(heap1, signed_event.ref, "signature_key_id", key_id)
                 IN  [heap |-> heap2, made |-> <<der_signature>>,
                      outcome |-> Returned(signed_event.ref)]

\* a plausible slip: the payload embedded in the token is verified, not the
\* canonical form of the event as presented
verify_try_embedded_payload(event, jws_compact, public_key_pem, signed) ==
    LET parts == Split(jws_compact, ".")
    IN  IF Len(parts) # 3 THEN Returned(FALSE)
        ELSE LET signing_input == encode(parts[1] \o <<".">> \o parts[2])
                 sig_bytes == _base64url_decode(parts[3])
             IN  IF sig_bytes.raised THEN sig_bytes
                 ELSE IF Len(sig_bytes.value[1]) # 64 THEN Returned(FALSE)
                 ELSE LET r == from_bytes(SubSeq(sig_bytes.value[1], 1, 32))
                          s == from_bytes(SubSeq(sig_bytes.value[1], 33, 64))
                          public_key == load_pem_public_key(public_key_pem)
                      IN  IF public_key.raised THEN public_key
                          ELSE IF ecdsa_verify(public_key.value[1], r, s, signing_input, signed)
                          THEN Returned(TRUE)
                          ELSE Raised("InvalidSignature", "")

\* the body of the try block of verify_event_signature
verify_try(event, jws_compact, public_key_pem, signed) ==
    LET parts == Split(jws_compact, ".")
    IN  IF Len(parts) # 3 THEN Returned(FALSE)
        ELSE LET header_b64 == parts[1]
                 signature_b64 == parts[3]
                 expected_payload_b64 == _base64url_encode(_canonical_json(event))
                 signing_input == encode(header_b64 \o <<".">> \o expected_payload_b64)
                 sig_bytes == _base64url_decode(signature_b64)
             IN  IF sig_bytes.raised THEN sig_bytes
                 ELSE IF Len(sig_bytes.value[1]) # 64 THEN Returned(FALSE)
                 ELSE LET r == from_bytes(SubSeq(sig_bytes.value[1], 1, 32))
                          s == from_bytes(SubSeq(sig_bytes.value[1], 33, 64))
                          public_key == load_pem_public_key(public_key_pem)
                      IN  IF public_key.raised THEN public_key
                          ELSE IF ecdsa_verify(public_key.value[1], r, s, signing_input, signed)
                          THEN Returned(TRUE)
                          ELSE Raised("InvalidSignature", "")

\* a plausible slip: no except clause, the exception reaches the caller
verify_except_missing(outcome) == outcome

\* except Exception: return False
verify_except(outcome) == IF outcome.raised THEN Returned(FALSE) ELSE outcome

\* verify_event_signature(event, public_key_pem): True or False, or ImportError
verify_event_signature(installed, event, public_key_pem, signed) ==
    IF ~installed
    THEN Raised("ImportError", "The 'cryptography' package is required")
    ELSE LET jws_compact == Get(event, "event_signature", <<>>)
         IN  IF jws_compact = <<>> THEN Returned(FALSE)
             ELSE verify_except(verify_try(event, jws_compact, public_key_pem, signed))

-----------------------------------------------------------------------------
(* tracestate.py: the aigp vendor key of the W3C tracestate header *)

VENDOR_KEY == <<"a", "i", "g", "p">>

\* AIGPAttributes.CLASSIFICATION_ABBREV, as pairs of strings of characters
ClassificationAbbrev ==
    { <<<<"p","u","b","l","i","c">>, <<"p","u","b">>>>,
      <<<<"i","n","t","e","r","n","a","l">>, <<"i","n","t">>>>,
      <<<<"c","o","n","f","i","d","e","n","t","i","a","l">>, <<"c","o","n">>>>,
      <<<<"r","e","s","t","r","i","c","t","e","d">>, <<"r","e","s">>>> }

\* the characters str.strip() removes
Whitespace == {" ", "\t", "\n"}

\* s.strip()
strip(s) ==
    LET kept == {i \in 1..Len(s) : s[i] \notin Whitespace}
    IN  IF kept = {} THEN <<>>
        ELSE SubSeq(s, CHOOSE i \in kept : \A j \in kept : i <= j,
                       CHOOSE i \in kept : \A j \in kept : j <= i)

\* s.startswith(prefix)
startswith(s, prefix) == Len(prefix) <= Len(s) /\ SubSeq(s, 1, Len(prefix)) = prefix

\* sep.join(parts)
join(sep, parts) ==
    LET Loop[i \in 0..Len(parts)] ==
            IF i = 0 THEN <<>>
            ELSE Loop[i - 1] \o (IF i = 1 THEN <<>> ELSE sep) \o parts[i]
    IN  Loop[Len(parts)]

\* [x for x in items if keep(x)]
Filter(items, keep(_)) ==
    LET Loop[i \in 0..Len(items)] ==
            IF i = 0 THEN <<>>
            ELSE IF keep(items[i]) THEN Append(Loop[i - 1], items[i])
            ELSE Loop[i - 1]
    IN  Loop[Len(items)]

\* a plausible slip: the version is written when it is 0 as well
AIGPTraceState_encode_writing_version_zero(data_classification, policy_name, policy_version) ==
    LET known == {pair \in ClassificationAbbrev : pair[1] = data_classification}
        abbrev == IF known # {} THEN (CHOOSE pair \in known : TRUE)[2]
                  ELSE SubSeq(data_classification, 1,
                              IF Len(data_classification) < 3
                              THEN Len(data_classification) ELSE 3)
    IN  join(<<";">>,
             (IF data_classification # <<>>
              THEN <<<<"c","l","s",":">> \o abbrev>> ELSE <<>>)
             \o (IF policy_name # <<>>
                 THEN <<<<"p","o","l",":">> \o policy_name>> ELSE <<>>)
             \o <<<<"v","e","r",":">> \o Decimal(policy_version)>>)

\* AIGPTraceState.encode(data_classification, policy_name, policy_version)
AIGPTraceState_encode(data_classification, policy_name, policy_version) ==
    LET known == {pair \in ClassificationAbbrev : pair[1] = data_classification}
        abbrev == IF known # {} THEN (CHOOSE pair \in known : TRUE)[2]
                  ELSE SubSeq(data_classification, 1,
                              IF Len(data_classification) < 3
                              THEN Len(data_classification) ELSE 3)
    IN  join(<<";">>,
             (IF data_classification # <<>>
              THEN <<<<"c","l","s",":">> \o abbrev>> ELSE <<>>)
             \o (IF policy_name # <<>>
                 THEN <<<<"p","o","l",":">> \o policy_name>> ELSE <<>>)
             \o (IF policy_version > 0
                 THEN <<<<"v","e","r",":">> \o Decimal(policy_version)>> ELSE <<>>))

\* a plausible slip: the abbreviation is stored as it is read
AIGPTraceState_decode_without_lookup(vendor_value) ==
    LET parts == Split(vendor_value, ";")
        colon(part) == CHOOSE i \in 1..Len(part) :
                          part[i] = ":" /\ \A j \in 1..(i - 1) : part[j] # ":"
        key(part) == SubSeq(part, 1, colon(part) - 1)
        value(part) == SubSeq(part, colon(part) + 1, Len(part))
        item(part) ==
            IF \A i \in 1..Len(part) : part[i] # ":" THEN <<>>
            ELSE IF key(part) = <<"c","l","s">> THEN "data_classification" :> value(part)
            ELSE IF key(part) = <<"p","o","l">> THEN "policy_name" :> value(part)
            ELSE IF key(part) = <<"v","e","r">> THEN "policy_version" :> value(part)
            ELSE <<>>
        Loop[i \in 0..Len(parts)] ==
            IF i = 0 THEN <<>> ELSE item(parts[i]) @@ Loop[i - 1]
    IN  Loop[Len(parts)]

\* AIGPTraceState.decode(vendor_value): a dict, later parts overwriting
\* earlier ones under the same key
AIGPTraceState_decode(vendor_value) ==
    LET parts == Split(vendor_value, ";")
        colon(part) == CHOOSE i \in 1..Len(part) :
                          part[i] = ":" /\ \A j \in 1..(i - 1) : part[j] # ":"
        key(part) == SubSeq(part, 1, colon(part) - 1)
        value(part) == SubSeq(part, colon(part) + 1, Len(part))
        full(abbrev) ==
            LET known == {pair \in ClassificationAbbrev : pair[2] = abbrev}
            IN  IF known # {} THEN (CHOOSE pair \in known : TRUE)[1] ELSE abbrev
        item(part) ==
            IF \A i \in 1..Len(part) : part[i] # ":" THEN <<>>
            ELSE IF key(part) = <<"c","l","s">>
            THEN "data_classification" :> full(value(part))
            ELSE IF key(part) = <<"p","o","l">> THEN "policy_name" :> value(part)
            ELSE IF key(part) = <<"v","e","r">> THEN "policy_version" :> value(part)
            ELSE <<>>
        Loop[i \in 0..Len(parts)] ==
            IF i = 0 THEN <<>> ELSE item(parts[i]) @@ Loop[i - 1]
    IN  Loop[Len(parts)]

\* a plausible slip: the new entry is prepended, a prior one is not removed
inject_into_tracestate_keeping_prior(existing_tracestate, data_classification, policy_name, policy_version) ==
    LET aigp_value == AIGPTraceState_encode(data_classification, policy_name,
                                            policy_version)
        aigp_entry == VENDOR_KEY \o <<"=">> \o aigp_value
    IN  IF aigp_value = <<>> THEN existing_tracestate
        ELSE IF existing_tracestate # <<>>
        THEN aigp_entry \o <<",">> \o existing_tracestate
        ELSE aigp_entry

\* AIGPTraceState.inject_into_tracestate(existing_tracestate, ...)
inject_into_tracestate(existing_tracestate, data_classification, policy_name, policy_version) ==
    LET aigp_value == AIGPTraceState_encode(data_classification, policy_name,
                                            policy_version)
        aigp_entry == VENDOR_KEY \o <<"=">> \o aigp_value
        split == Split(existing_tracestate, ",")
        stripped == [i \in DOMAIN split |-> strip(split[i])]
        other(e) == ~startswith(e, VENDOR_KEY \o <<"=">>)
        entries == Filter(stripped, other)
    IN  IF aigp_value = <<>> THEN existing_tracestate
        ELSE IF existing_tracestate # <<>> /\ entries # <<>>
        THEN aigp_entry \o <<",">> \o join(<<",">>, entries)
        ELSE aigp_entry

\* AIGPTraceState.extract_from_tracestate(tracestate): the first aigp entry
\* decoded, or the empty dict
extract_from_tracestate(tracestate) ==
    LET split == Split(tracestate, ",")
        found == {i \in DOMAIN split : startswith(strip(split[i]), VENDOR_KEY \o <<"=">>)}
    IN  IF found = {} THEN <<>>
        ELSE LET entry == strip(split[CHOOSE i \in found : \A j \in found : i <= j])
             IN  AIGPTraceState_decode(SubSeq(entry, Len(VENDOR_KEY) + 2, Len(entry)))

-----------------------------------------------------------------------------
(* baggage.py: the allow-listed keys of the propagation context *)

\* an opentelemetry Context: a mapping that holds the baggage under one entry
\* and whatever else was attached (the current span); `entries` are the
\* other entries, `baggage` is None while the baggage entry is absent.
\* A dict is the set of its <<key, value>> pairs
EmptyContext == [entries |-> {}, baggage |-> None]

\* bool(context): a Context is a dict, falsy when it has no entry at all
Truthy(context) == context.entries # {} \/ context.baggage # None

\* opentelemetry.baggage.get_all
get_all(context) == IF context.baggage = None THEN {} ELSE context.baggage[1]

\* opentelemetry.baggage.get_baggage: the value under the name, or None
get_baggage(name, context) ==
    IF \E item \in get_all(context) : item[1] = name
    THEN Some((CHOOSE item \in get_all(context) : item[1] = name)[2])
    ELSE None

\* opentelemetry.baggage.set_baggage: a new Context, the baggage copied with
\* the name set to the value
set_baggage(name, value, context) ==
    [context EXCEPT !.baggage =
        Some({item \in get_all(context) : item[1] # name} \cup {<<name, value>>})]

\* opentelemetry.baggage.remove_baggage: a new Context, the baggage copied
\* without the name
remove_baggage(name, context) ==
    [context EXCEPT !.baggage = Some({item \in get_all(context) : item[1] # name})]

SAFE_KEYS ==
    {AIGPAttributes.POLICY_NAME, AIGPAttributes.DATA_CLASSIFICATION, AIGPAttributes.ORG_ID}

FORBIDDEN_KEYS ==
    {AIGPAttributes.GOVERNANCE_HASH, AIGPAttributes.DENIAL_REASON,
     AIGPAttributes.VIOLATION_TYPE}

\* "ctx or context.get_current()": the Context handed in unless it is None or
\* falsy, else the ambient one
ctx_or_current(ctx, current) ==
    IF ctx # None /\ Truthy(ctx[1]) THEN ctx[1] ELSE current

\* "if <value>: current_ctx = baggage.set_baggage(<key>, <value>, context=current_ctx)"
set_if(value, key, current_ctx) ==
    IF value # "" THEN set_baggage(key, value, current_ctx) ELSE current_ctx

AIGPBaggage_inject(policy_name, data_classification, org_id, ctx, current) ==
    set_if(org_id, AIGPAttributes.ORG_ID,
        set_if(data_classification, AIGPAttributes.DATA_CLASSIFICATION,
            set_if(policy_name, AIGPAttributes.POLICY_NAME,
                ctx_or_current(ctx, current))))

\* "value = baggage.get_baggage(key, ...); if value: result[key] = value"
\* for every key of SAFE_KEYS
AIGPBaggage_extract(ctx, current) ==
    {<<key, get_baggage(key, ctx_or_current(ctx, current))[1]>> :
        key \in {k \in SAFE_KEYS :
                    /\ get_baggage(k, ctx_or_current(ctx, current)) # None
                    /\ get_baggage(k, ctx_or_current(ctx, current))[1] # ""}}

\* "for key in SAFE_KEYS: current_ctx = baggage.remove_baggage(key, ...)"
RECURSIVE remove_loop(_, _)
remove_loop(keys, current_ctx) ==
    IF keys = {} THEN current_ctx
    ELSE remove_loop(keys \ {CHOOSE key \in keys : TRUE},
                     remove_baggage(CHOOSE key \in keys : TRUE, current_ctx))

\* a clear that hands the Context back as it found it
AIGPBaggage_clear_keeping(ctx, current) == ctx_or_current(ctx, current)

AIGPBaggage_clear(ctx, current) == remove_loop(SAFE_KEYS, ctx_or_current(ctx, current))

------------------------------------------------------------------------------
(* instrumentor.py: the spans a call runs under *)

\* The span of a call is its span argument or, when that is None, the
\* caller's current span (trace.get_current_span()): a recording span of one
\* of two traces, or the invalid span that is current outside any span.
Spans ==
    [a       |-> [trace_id |-> 10,  span_id |-> 1, trace_flags |-> 1, parent |-> None],
     b       |-> [trace_id |-> 171, span_id |-> 2, trace_flags |-> 0, parent |-> Some(1)],
     invalid |-> [trace_id |-> 0,   span_id |-> 0, trace_flags |-> 0, parent |-> None]]
SpanNames == DOMAIN Spans

\* a plausible slip: the context is taken as valid without the test
is_valid_untested(ctx) == TRUE

\* SpanContext.is_valid
is_valid(ctx) == ctx.trace_id # 0 /\ ctx.span_id # 0

_get_span_context(span) ==
    LET ctx == Spans[span]
    IN  IF ~ is_valid(ctx)
        THEN [trace_id |-> <<>>, span_id |-> <<>>, trace_flags |-> <<>>,
              parent_span_id |-> <<>>]
        ELSE [trace_id |-> Format(ctx.trace_id, 32),
              span_id |-> Format(ctx.span_id, 16),
              trace_flags |-> Format(ctx.trace_flags, 2),
              parent_span_id |-> IF ctx.parent # None
                                 THEN Format(ctx.parent[1], 16) ELSE <<>>]

\* the attributes of the span event, or the AttributeError raised on the way
_emit_span_event(aigp_event) ==
    LET e == aigp_event
        tree == "governance_merkle_tree" \in DOMAIN e
    IN  SetAttrs(
          << SetAttr(TRUE, "EVENT_ID", e.event_id),
             SetAttr(TRUE, "EVENT_TYPE", e.event_type),
             SetAttr(TRUE, "EVENT_CATEGORY", e.event_category),
             SetAttr(e.governance_hash # <<>>, "GOVERNANCE_HASH", e.governance_hash),
             SetAttr(e.governance_hash # <<>>, "GOVERNANCE_HASH_TYPE", e.hash_type),
             SetAttr(e.data_classification # "", "DATA_CLASSIFICATION",
                     e.data_classification),
             SetAttr(e.policy_name # <<>>, "POLICY_NAME", e.policy_name),
             SetAttr(e.policy_version # 0, "POLICY_VERSION", e.policy_version),
             SetAttr(e.prompt_name # <<>>, "PROMPT_NAME", e.prompt_name),
             SetAttr(e.prompt_version # 0, "PROMPT_VERSION", e.prompt_version),
             SetAttr(IsDenialType(e.event_type), "ENFORCEMENT_RESULT",
                     AIGPAttributes.ENFORCEMENT_DENIED),
             SetAttr(~ IsDenialType(e.event_type), "ENFORCEMENT_RESULT",
                     AIGPAttributes.ENFORCEMENT_ALLOWED),
             SetAttr(e.severity # "", "SEVERITY", e.severity),
             SetAttr(e.violation_type # "", "VIOLATION_TYPE", e.violation_type),
             SetAttr(e.denial_reason # "", "DENIAL_REASON", e.denial_reason),
             SetAttr(tree, "MERKLE_LEAF_COUNT",
                     IF tree THEN e.governance_merkle_tree.leaf_count ELSE 0),
             SetAttr(e.event_signature # <<>>, "EVENT_SIGNATURE", e.event_signature),
             SetAttr(e.signature_key_id # "", "SIGNATURE_KEY_ID", e.signature_key_id),
             SetAttr(e.sequence_number # 0, "SEQUENCE_NUMBER", e.sequence_number),
             SetAttr(e.causality_ref # "", "CAUSALITY_REF", e.causality_ref) >>,
          <<>>)

\* multi_policy_inject builds its span event attributes itself
multi_policy_inject_attrs(aigp_event, policies, data_classification) ==
    LET e == aigp_event
        tree == "governance_merkle_tree" \in DOMAIN e
    IN  SetAttrs(
          << SetAttr(TRUE, "EVENT_ID", e.event_id),
             SetAttr(TRUE, "EVENT_TYPE", e.event_type),
             SetAttr(TRUE, "EVENT_CATEGORY", e.event_category),
             SetAttr(TRUE, "GOVERNANCE_HASH", e.governance_hash),
             SetAttr(TRUE, "GOVERNANCE_HASH_TYPE", e.hash_type),
             SetAttr(TRUE, "ENFORCEMENT_RESULT", AIGPAttributes.ENFORCEMENT_ALLOWED),
             SetAttr(TRUE, "POLICIES_NAMES",
                     [i \in 1..Len(policies) |-> policies[i].name]),
             SetAttr(TRUE, "POLICIES_VERSIONS",
                     [i \in 1..Len(policies) |-> Get(policies[i], "version", 0)]),
             SetAttr(data_classification # "", "DATA_CLASSIFICATION",
                     data_classification),
             SetAttr(tree, "MERKLE_LEAF_COUNT",
                     IF tree THEN e.governance_merkle_tree.leaf_count ELSE 0) >>,
          <<>>)

(* openlineage.py: the facet handed to the lineage callback *)
build_governance_run_facet(aigp_event) ==
    LET e == aigp_event
        leaf_count == IF "governance_merkle_tree" \in DOMAIN e
                      THEN e.governance_merkle_tree.leaf_count ELSE 1
        facet == [_producer |-> "https://github.com/sandarb-ai/aigp",
                  _schemaURL |-> "AIGPGovernanceRunFacet.json",
                  governanceHash |-> e.governance_hash, hashType |-> e.hash_type,
                  leafCount |-> leaf_count, agentId |-> e.agent_id,
                  traceId |-> e.trace_id, specVersion |-> "0.8.0"]
        enforced == IF IsDenialType(e.event_type)
                    THEN [enforcementResult |-> "denied"] @@ facet
                    ELSE IF e.event_type # <<>>
                    THEN [enforcementResult |-> "allowed"] @@ facet
                    ELSE facet
    IN  IF e.data_classification # ""
        THEN [dataClassification |-> e.data_classification] @@ enforced
        ELSE enforced

-----------------------------------------------------------------------------
(* instrumentor.py: the governance methods, up to the emission *)

\* the instance attributes __init__ sets from its arguments
self == [agent_id |-> "agent.x", agent_name |-> "X", org_id |-> "org.x", org_name |-> ""]

\* the arguments every method hands to create_aigp_event
CommonArgs(span_ctx) ==
    [agent_id |-> self.agent_id, trace_id |-> span_ctx.trace_id,
     span_id |-> span_ctx.span_id, parent_span_id |-> span_ctx.parent_span_id,
     trace_flags |-> span_ctx.trace_flags, agent_name |-> self.agent_name,
     org_id |-> self.org_id, org_name |-> self.org_name]

\* "return self._dual_emit(AIGPAttributes.<name>, aigp_event, span, causality_ref)":
\* the arguments are evaluated, then _dual_emit is entered
DualEmitCall(name, aigp_event, causality_ref) ==
    LET event_name == Attribute(name)
    IN  IF event_name.raised THEN event_name
        ELSE Returned([path |-> "_dual_emit", event_name |-> event_name.value[1],
                       aigp_event |-> aigp_event, causality_ref |-> causality_ref])

inject_success(args, event_id, now) ==
    LET span_ctx == _get_span_context(args.span)
        governance_hash == compute_governance_hash(args.content)
        aigp_event == create_aigp_event(
            [event_type |-> INJECT_SUCCESS, event_category |-> "inject",
             governance_hash |-> governance_hash, policy_name |-> <<"p",".","x">>,
             policy_version |-> 4] @@ CommonArgs(span_ctx), event_id, now)
    IN  DualEmitCall("EVENT_INJECT_SUCCESS", aigp_event, "")

inject_denied(args, event_id, now) ==
    LET span_ctx == _get_span_context(args.span)
        aigp_event == create_aigp_event(
            [event_type |-> INJECT_DENIED, event_category |-> "inject",
             policy_name |-> <<"p",".","x">>, denial_reason |-> "no access",
             violation_type |-> "ACCESS_CONTROL", severity |-> args.severity]
            @@ CommonArgs(span_ctx), event_id, now)
    IN  DualEmitCall("EVENT_INJECT_DENIED", aigp_event, "")

a2a_call(args, event_id, now) ==
    LET span_ctx == _get_span_context(args.span)
        governance_hash == IF args.content # <<>>
                           THEN compute_governance_hash(args.content) ELSE <<>>
        aigp_event == create_aigp_event(
            [event_type |-> A2A_CALL, event_category |-> "a2a",
             governance_hash |-> governance_hash, request_method |-> "A2A"]
            @@ CommonArgs(span_ctx), event_id, now)
    IN  DualEmitCall("EVENT_A2A_CALL", aigp_event, args.causality_ref)

inference_blocked(args, event_id, now) ==
    LET span_ctx == _get_span_context(args.span)
        aigp_event == create_aigp_event(
            [event_type |-> INFERENCE_BLOCKED, event_category |-> "inference",
             denial_reason |-> "no access", severity |-> args.severity]
            @@ CommonArgs(span_ctx), event_id, now)
    IN  DualEmitCall("EVENT_INFERENCE_BLOCKED", aigp_event, "")

multi_resource_governance_proof(args, event_id, now) ==
    IF args.resources = <<>>
    THEN Raised("ValueError", "At least one resource is required")
    ELSE
    LET span_ctx == _get_span_context(args.span)
        computed == compute_merkle_governance_hash(args.resources)
    IN  IF computed.raised THEN computed
        ELSE
        LET governance_hash == computed.value[1][1]
            merkle_tree == computed.value[1][2]
            hash_type == IF merkle_tree # None THEN "merkle-sha256" ELSE "sha256"
            primary_type == args.resources[1].items[1]
            primary_name == args.resources[1].items[2]
            aigp_event == create_aigp_event(
                [event_type |-> GOVERNANCE_PROOF,
                 event_category |-> "governance-proof",
                 governance_hash |-> governance_hash, hash_type |-> hash_type,
                 policy_name |-> IF primary_type = <<"p","o","l","i","c","y">>
                                 THEN primary_name ELSE <<>>,
                 prompt_name |-> IF primary_type = <<"p","r","o","m","p","t">>
                                 THEN primary_name ELSE <<>>,
                 annotations |->
                     [all_resources |->
                        [i \in 1..Len(args.resources) |->
                           [type |-> args.resources[i].items[1],
                            name |-> args.resources[i].items[2]]]],
                 governance_merkle_tree |-> merkle_tree]
                @@ CommonArgs(span_ctx), event_id, now)
        IN  DualEmitCall("EVENT_GOVERNANCE_PROOF", aigp_event, "")

\* the hash_type joined to the <<governance_hash, merkle_tree>> a computation
\* returned, or what it raised
WithHashType(computed, hash_type) ==
    IF computed.raised THEN computed
    ELSE Returned(<<computed.value[1][1], computed.value[1][2], hash_type>>)

\* a plausible slip: the Merkle branch taken for any per-resource content
multi_policy_hash_for_any_contents(args) ==
    IF Len(args.resource_contents) > 0
    THEN WithHashType(compute_merkle_governance_hash(args.resource_contents),
                      "merkle-sha256")
    ELSE Returned(<<compute_governance_hash(args.content), None, "sha256">>)

\* multi_policy_inject: "if resource_contents and len(resource_contents) > 1:
\* ... else: ...", giving governance_hash, merkle_tree and hash_type
multi_policy_hash(args) ==
    IF Len(args.resource_contents) > 1
    THEN WithHashType(compute_merkle_governance_hash(args.resource_contents),
                      "merkle-sha256")
    ELSE Returned(<<compute_governance_hash(args.content), None, "sha256">>)

\* multi_policy_inject does not enter _dual_emit: it emits in its own body
multi_policy_inject(args, event_id, now) ==
    IF args.policies = <<>>
    THEN Raised("ValueError", "At least one policy is required")
    ELSE
    LET span_ctx == _get_span_context(args.span)
        computed == multi_policy_hash(args)
    IN  IF computed.raised THEN computed
        ELSE
        LET governance_hash == computed.value[1][1]
            merkle_tree == computed.value[1][2]
            hash_type == computed.value[1][3]
            primary == args.policies[1]
            aigp_event == create_aigp_event(
                [event_type |-> INJECT_SUCCESS, event_category |-> "inject",
                 governance_hash |-> governance_hash, hash_type |-> hash_type,
                 policy_name |-> primary.name,
                 policy_version |-> Get(primary, "version", 0),
                 annotations |->
                     [all_policies |->
                        [i \in 1..Len(args.policies) |->
                           [name |-> args.policies[i].name,
                            version |-> Get(args.policies[i], "version", 0)]]],
                 governance_merkle_tree |-> merkle_tree]
                @@ CommonArgs(span_ctx), event_id, now)
        IN  Returned([path |-> "multi_policy_inject",
                      event_name |-> AIGPAttributes.EVENT_INJECT_SUCCESS,
                      aigp_event |-> aigp_event, causality_ref |-> ""])

\* the method a call names
Method(args, event_id, now) ==
    CASE args.method = "inject_success" -> inject_success(args, event_id, now)
      [] args.method = "inject_denied" -> inject_denied(args, event_id, now)
      [] args.method = "a2a_call" -> a2a_call(args, event_id, now)
      [] args.method = "inference_blocked" -> inference_blocked(args, event_id, now)
      [] args.method = "multi_resource_governance_proof" ->
             multi_resource_governance_proof(args, event_id, now)
      [] args.method = "multi_policy_inject" -> multi_policy_inject(args, event_id, now)

-----------------------------------------------------------------------------
(* instrumentor.py: the dispatcher's calls, step by step *)

\* the threads that call the dispatcher
Callers == {"t1", "t2"}

\* the arguments of one call
Args(method, span, content, severity, causality_ref, policies, resource_contents, resources) ==
    [method |-> method, span |-> span, content |-> content, severity |-> severity,
     causality_ref |-> causality_ref, policies |-> policies,
     resource_contents |-> resource_contents, resources |-> resources]

PolicyResource == TupleResource(<<"p","o","l","i","c","y">>, <<"p",".","x">>, <<"c">>)
PromptResource == TupleResource(<<"p","r","o","m","p","t">>, <<"q",".","y">>, <<"d">>)
BadResource == TupleResource(<<"P">>, <<"p",".","x">>, <<"c">>)
Policies == << [name |-> <<"p",".","x">>, version |-> 4], [name |-> <<"p",".","y">>] >>

\* the calls made in sequential use
CallInputs ==
    UNION { { Args("inject_success", sp, <<"c">>, "", "", <<>>, None, <<>>),
              Args("inject_denied", sp, <<>>, "medium", "", <<>>, None, <<>>),
              Args("inject_denied", sp, <<>>, "high", "", <<>>, None, <<>>),
              Args("a2a_call", sp, <<>>, "", "", <<>>, None, <<>>),
              Args("a2a_call", sp, <<>>, "", "e0", <<>>, None, <<>>),
              Args("inference_blocked", sp, <<>>, "high", "", <<>>, None, <<>>),
              Args("multi_resource_governance_proof", sp, <<>>, "", "", <<>>, None, <<>>),
              Args("multi_resource_governance_proof", sp, <<>>, "", "", <<>>, None,
                   <<PolicyResource>>),
              Args("multi_resource_governance_proof", sp, <<>>, "", "", <<>>, None,
                   <<PolicyResource, PromptResource>>),
              Args("multi_resource_governance_proof", sp, <<>>, "", "", <<>>, None,
                   <<PolicyResource, BadResource>>),
              Args("multi_policy_inject", sp, <<"c">>, "", "", <<>>, None, <<>>),
              Args("multi_policy_inject", sp, <<"c">>, "", "", SubSeq(Policies, 1, 1),
                   None, <<>>),
              Args("multi_policy_inject", sp, <<"c">>, "", "", Policies,
                   <<PromptResource>>, <<>>),
              Args("multi_policy_inject", sp, <<"c">>, "", "", Policies,
                   <<PolicyResource, PromptResource>>, <<>>) } : sp \in SpanNames }

\* the calls made concurrently
ConcInputs ==
    { args \in CallInputs :
        /\ args.method \in {"inject_success", "inject_denied", "multi_policy_inject"}
        /\ args.severity # "medium"
        /\ Len(args.policies) <= 1 }

\* the call a caller has in progress: where it is and its local variables.
\* counter_at_call records the counter of the call's trace when the call was
\* made, emitted what the call has handed to the span and the callbacks,
\* failed the callbacks that raised during the call, and logged its
\* logger.error records.
IdleFrame ==
    [pc |-> "idle", args |-> <<>>, path |-> "", event_name |-> "",
     aigp_event |-> <<>>, causality_ref |-> "", current |-> 0,
     counter_at_call |-> 0, emitted |-> <<>>, failed |-> <<>>, logged |-> <<>>,
     result |-> <<>>]

DispInit ==
    /\ _sequence_counters = <<>>
    /\ event_callback \in BOOLEAN
    /\ openlineage_callback \in BOOLEAN
    /\ frame = [c \in Callers |-> IdleFrame]
    /\ spanStatus = [sp \in SpanNames |-> "UNSET"]
    /\ emitLog = <<>>
    /\ nextEventId = 1
    /\ issued = <<>>

\* _dual_emit after the sequence number: "if causality_ref: ..." and on to
\* the span event
SetCausalityRef(fr) ==
    [fr EXCEPT !.aigp_event = IF fr.causality_ref # ""
                              THEN [@ EXCEPT !.causality_ref = fr.causality_ref]
                              ELSE @,
               !.pc = "span_event"]

\* the frame of a call whose method body has built its event
Entered(fr, entered, pc) ==
    [fr EXCEPT !.path = entered.path, !.event_name = entered.event_name,
               !.aigp_event = entered.aigp_event,
               !.causality_ref = entered.causality_ref, !.pc = pc]

\* a method is called: its body runs up to the first access to shared state
Call(c, inputs) ==
    /\ frame[c].pc = "idle"
    /\ nextEventId <= MaxCalls
    /\ \E args \in inputs :
       \E entered \in {Method(args, uuid4(nextEventId), "now")} :
          LET trace_id == _get_span_context(args.span).trace_id
              fr == [IdleFrame EXCEPT
                       !.args = args,
                       !.counter_at_call = Get(_sequence_counters, trace_id, 0)]
          IN  frame' = [frame EXCEPT ![c] =
                 IF entered.raised
                 THEN [fr EXCEPT !.pc = "done", !.result = entered]
                 ELSE IF entered.value[1].path = "multi_policy_inject"
                 THEN Entered(fr, entered.value[1], "span_event")
                 ELSE IF entered.value[1].aigp_event.trace_id # <<>>
                 THEN Entered(fr, entered.value[1], "next_sequence_read")
                 ELSE SetCausalityRef(Entered(fr, entered.value[1], "span_event"))]
    /\ nextEventId' = nextEventId + 1
    /\ UNCHANGED <<pureCall, signatures, signing, propagation, _sequence_counters, event_callback, openlineage_callback,
                   spanStatus, emitLog, issued>>

\* _next_sequence: current = self._sequence_counters.get(trace_id, 0)
NextSequenceRead(c) ==
    /\ frame[c].pc = "next_sequence_read"
    /\ frame' = [frame EXCEPT ![c] =
          [@ EXCEPT !.current = Get(_sequence_counters,
                                    frame[c].aigp_event.trace_id, 0),
                    !.pc = "next_sequence_increment"]]
    /\ UNCHANGED <<pureCall, signatures, signing, propagation, _sequence_counters, event_callback, openlineage_callback,
                   spanStatus, emitLog, nextEventId, issued>>

\* _next_sequence: current += 1
NextSequenceIncrement(c) ==
    /\ frame[c].pc = "next_sequence_increment"
    /\ frame' = [frame EXCEPT ![c] =
          [@ EXCEPT !.current = @ + 1, !.pc = "next_sequence_store"]]
    /\ UNCHANGED <<pureCall, signatures, signing, propagation, _sequence_counters, event_callback, openlineage_callback,
                   spanStatus, emitLog, nextEventId, issued>>

\* _next_sequence: self._sequence_counters[trace_id] = current; return current,
\* and _dual_emit: aigp_event["sequence_number"] = <the number returned>
NextSequenceStore(c) ==
    /\ frame[c].pc = "next_sequence_store"
    /\ LET fr == frame[c]
           trace_id == fr.aigp_event.trace_id
       IN  /\ _sequence_counters' = (trace_id :> fr.current) @@ _sequence_counters
           /\ issued' = (trace_id :> Append(Get(issued, trace_id, <<>>), fr.current))
                        @@ issued
           /\ frame' = [frame EXCEPT ![c] =
                 SetCausalityRef([fr EXCEPT !.aigp_event.sequence_number = fr.current])]
    /\ UNCHANGED <<pureCall, signatures, signing, propagation, event_callback, openlineage_callback, spanStatus, emitLog,
                   nextEventId>>

\* what a call has handed out: kind is "span_event", "event_callback" or
\* "openlineage_callback"
Emission(kind, event_id) == [kind |-> kind, event_id |-> event_id]
Emitted(fr, kind, payload) ==
    [fr EXCEPT !.emitted = Append(@, [kind |-> kind, payload |-> payload])]

\* the callback of that kind raised an Exception
Failed(fr, kind) == [fr EXCEPT !.failed = Append(@, kind)]

\* _dual_emit: self._emit_span_event(...) and the span status
EmitSpanEvent(c) ==
    /\ frame[c].pc = "span_event"
    /\ frame[c].path = "_dual_emit"
    /\ LET fr == frame[c]
           attrs == _emit_span_event(fr.aigp_event)
           event_type == fr.aigp_event.event_type
       IN  IF attrs.raised
           THEN /\ frame' = [frame EXCEPT ![c] =
                      [fr EXCEPT !.pc = "done", !.result = attrs]]
                /\ UNCHANGED <<emitLog, spanStatus>>
           ELSE /\ frame' = [frame EXCEPT ![c] =
                      [Emitted(fr, "span_event", attrs.value[1])
                         EXCEPT !.pc = "event_callback"]]
                /\ emitLog' = Append(emitLog,
                                     Emission("span_event", fr.aigp_event.event_id))
                /\ spanStatus' =
                      IF /\ IsDenialType(event_type)
                         /\ fr.aigp_event.severity \in {"critical", "high"}
                      THEN [spanStatus EXCEPT ![fr.args.span] = "ERROR"]
                      ELSE spanStatus
    /\ UNCHANGED <<pureCall, signatures, signing, propagation, _sequence_counters, event_callback, openlineage_callback,
                   nextEventId, issued>>

\* multi_policy_inject: span.add_event(...) with the attributes it built
MultiPolicySpanEvent(c) ==
    /\ frame[c].pc = "span_event"
    /\ frame[c].path = "multi_policy_inject"
    /\ LET fr == frame[c]
           attrs == multi_policy_inject_attrs(fr.aigp_event, fr.args.policies, "")
       IN  /\ frame' = [frame EXCEPT ![c] =
                 [Emitted(fr, "span_event", attrs.value[1])
                    EXCEPT !.pc = "event_callback"]]
           /\ emitLog' = Append(emitLog, Emission("span_event", fr.aigp_event.event_id))
    /\ UNCHANGED <<pureCall, signatures, signing, propagation, _sequence_counters, event_callback, openlineage_callback,
                   spanStatus, nextEventId, issued>>

\* a plausible slip: the exception of the event callback is raised again
event_callback_except_reraising(fr) ==
    [fr EXCEPT !.pc = "done",
               !.result = Raised("Exception", "raised by event_callback")]

\* "except Exception as e: logger.error(...)" around the event callback
event_callback_except(fr) ==
    [fr EXCEPT !.logged = Append(@, "AIGP event callback failed"),
               !.pc = "openlineage_callback"]

\* "if self.event_callback: try: self.event_callback(aigp_event)"; the
\* callback returns, or raises an Exception
EventCallback(c) ==
    /\ frame[c].pc = "event_callback"
    /\ event_callback
    /\ LET fr == Emitted(frame[c], "event_callback", frame[c].aigp_event)
       IN  \E raises \in BOOLEAN :
              frame' = [frame EXCEPT ![c] =
                 IF raises THEN event_callback_except(Failed(fr, "event_callback"))
                 ELSE [fr EXCEPT !.pc = "openlineage_callback"]]
    /\ emitLog' = Append(emitLog, Emission("event_callback", frame[c].aigp_event.event_id))
    /\ UNCHANGED <<pureCall, signatures, signing, propagation, _sequence_counters, event_callback, openlineage_callback,
                   spanStatus, nextEventId, issued>>

\* no event callback is configured
SkipEventCallback(c) ==
    /\ frame[c].pc = "event_callback"
    /\ ~ event_callback
    /\ frame' = [frame EXCEPT ![c].pc = "openlineage_callback"]
    /\ UNCHANGED <<pureCall, signatures, signing, propagation, _sequence_counters, event_callback, openlineage_callback,
                   spanStatus, emitLog, nextEventId, issued>>

\* "return aigp_event"
Return(fr) == [fr EXCEPT !.pc = "done", !.result = Returned(fr.aigp_event)]

\* "except Exception as e: logger.error(...)" around the lineage callback
openlineage_callback_except(fr) ==
    [fr EXCEPT !.logged = Append(@, "AIGP OpenLineage callback failed")]

\* "if self.openlineage_callback: try: ... self.openlineage_callback(ol_facet)";
\* the callback returns, or raises an Exception; then the event is returned
OpenLineageCallback(c) ==
    /\ frame[c].pc = "openlineage_callback"
    /\ openlineage_callback
    /\ LET ol_facet == build_governance_run_facet(frame[c].aigp_event)
           fr == Emitted(frame[c], "openlineage_callback", ol_facet)
       IN  \E raises \in BOOLEAN :
              frame' = [frame EXCEPT ![c] =
                 IF raises
                 THEN Return(openlineage_callback_except(
                                 Failed(fr, "openlineage_callback")))
                 ELSE Return(fr)]
    /\ emitLog' = Append(emitLog,
                         Emission("openlineage_callback", frame[c].aigp_event.event_id))
    /\ UNCHANGED <<pureCall, signatures, signing, propagation, _sequence_counters, event_callback, openlineage_callback,
                   spanStatus, nextEventId, issued>>

\* no lineage callback is configured: the event is returned
SkipOpenLineageCallback(c) ==
    /\ frame[c].pc = "openlineage_callback"
    /\ ~ openlineage_callback
    /\ frame' = [frame EXCEPT ![c] = Return(@)]
    /\ UNCHANGED <<pureCall, signatures, signing, propagation, _sequence_counters, event_callback, openlineage_callback,
                   spanStatus, emitLog, nextEventId, issued>>

\* the caller takes the outcome of its call
Complete(c) ==
    /\ frame[c].pc = "done"
    /\ frame' = [frame EXCEPT ![c] = IdleFrame]
    /\ UNCHANGED <<pureCall, signatures, signing, propagation, _sequence_counters, event_callback, openlineage_callback,
                   spanStatus, emitLog, nextEventId, issued>>

\* one instance used sequentially: one caller, one call at a time
Init ==
    /\ pureCall = <<>> /\ DispInit /\ signatures = <<>> /\ signing = <<>>
    /\ propagation = <<>>
Next ==
    \/ Call("t1", CallInputs)
    \/ NextSequenceRead("t1")
    \/ NextSequenceIncrement("t1")
    \/ NextSequenceStore("t1")
    \/ EmitSpanEvent("t1")
    \/ MultiPolicySpanEvent("t1")
    \/ EventCallback("t1")
    \/ SkipEventCallback("t1")
    \/ OpenLineageCallback("t1")
    \/ SkipOpenLineageCallback("t1")
    \/ Complete("t1")
Spec == Init /\ [][Next]_vars

\* one instance used by concurrent callers, each making one call; the steps
\* of their calls interleave
ConcNext ==
    \E c \in Callers :
       \/ Call(c, ConcInputs)
       \/ NextSequenceRead(c)
       \/ NextSequenceIncrement(c)
       \/ NextSequenceStore(c)
       \/ EmitSpanEvent(c)
       \/ MultiPolicySpanEvent(c)
       \/ EventCallback(c)
       \/ SkipEventCallback(c)
       \/ OpenLineageCallback(c)
       \/ SkipOpenLineageCallback(c)
ConcSpec == Init /\ [][ConcNext]_vars

-----------------------------------------------------------------------------
(* Inputs of the pure functions *)

\* resource_type arguments: matching the pattern, and not matching it
ValidTypes == {<<"p">>, <<"q">>, <<"a","1">>, <<"a","-","b">>}
InvalidTypes == {<<>>, <<"P">>, <<"a"," ","b">>, <<"a","_","b">>, <<"a","-">>,
                 <<"-","a">>, <<"a","-","-","b">>, <<"1","a">>, <<"p","\n">>}
ResourceTypes == ValidTypes \cup InvalidTypes
ResourceNames == {<<"n">>, <<"n",":","x">>}
Contents == {<<>>, <<"c">>, <<"x",":","c">>}
HashModes == {"content", "pointer"}
ContentRefs == {<<>>, <<"u">>}

\* resources handed to compute_merkle_governance_hash, as tuples and as dicts
ResourceUniverse ==
    { TupleResource(<<"p">>, <<"n">>, <<"c">>),
      TupleResource(<<"q">>, <<"n">>, <<"c">>),
      TupleResource(<<"p">>, <<"n",":","x">>, <<"c">>),
      TupleResource(<<"p">>, <<"n">>, <<"x",":","c">>),
      TupleResource(<<"P">>, <<"n">>, <<"c">>),
      DictResource([resource_type |-> <<"a","-","b">>, resource_name |-> <<"n">>,
                    content |-> <<"c">>, hash_mode |-> "pointer",
                    content_ref |-> <<"u">>]),
      DictResource([resource_type |-> <<"p">>, resource_name |-> <<"n">>,
                    hash_mode |-> "pointer"]),
      DictResource([resource_type |-> <<"q">>, resource_name |-> <<"n">>,
                    content |-> <<"x",":","c">>]) }

\* leaf hashes handed to _compute_merkle_root
LeafHashUniverse == {Sha256(<<"1">>), Sha256(<<"2">>), Sha256(<<"3">>), Sha256(<<"4">>)}

SeqsUpTo(S, n) == UNION {[1..k -> S] : k \in 0..n}

-----------------------------------------------------------------------------
(* The pure functions, called one at a time *)

CallLeafHash ==
    /\ pureCall = <<>>
    /\ \E t \in ResourceTypes, n \in ResourceNames, c \in Contents,
          m \in HashModes, r \in ContentRefs :
          pureCall' = <<[fn |-> "compute_leaf_hash",
                         args |-> <<t, n, c, m, r>>,
                         result |-> compute_leaf_hash(t, n, c, m, r)]>>
    /\ UNCHANGED <<dispVars, signVars, propagation>>

CallMerkleRoot ==
    /\ pureCall = <<>>
    /\ \E hashes \in SeqsUpTo(LeafHashUniverse, MaxLeaves) :
          pureCall' = <<[fn |-> "_compute_merkle_root",
                         args |-> hashes,
                         result |-> _compute_merkle_root(hashes)]>>
    /\ UNCHANGED <<dispVars, signVars, propagation>>

CallBuild ==
    /\ pureCall = <<>>
    /\ \E resources \in SeqsUpTo(ResourceUniverse, MaxResources) :
          pureCall' = <<[fn |-> "compute_merkle_governance_hash",
                         args |-> resources,
                         result |-> compute_merkle_governance_hash(resources)]>>
    /\ UNCHANGED <<dispVars, signVars, propagation>>

PureReturn ==
    /\ pureCall # <<>>
    /\ pureCall' = <<>>
    /\ UNCHANGED <<dispVars, signVars, propagation>>

\* optional parameters of create_aigp_event and the choices for each: left
\* out (None) or supplied (Some); the values supplied include the falsy
\* ones (0, False, "", the empty dict, None)
OptionalArguments ==
    [policy_version |-> {None, Some(0), Some(3)},
     template_rendered |-> {None, Some(FALSE), Some(TRUE)},
     severity |-> {None, Some(""), Some("tampered")},
     hash_type |-> {None, Some("sha256-merkle-v1")},
     annotations |-> {None, Some(<<>>), Some([note |-> <<"n">>])},
     governance_merkle_tree |->
        {None, Some(None), Some(Some(<<>>)),
         Some(Some([algorithm |-> "sha256-merkle-v1", leaf_count |-> 2]))}]

\* the keyword argument a choice makes
Keyword(name, choice) == IF choice = None THEN <<>> ELSE name :> choice[1]

\* event types with their categories
EventKinds == {<<INJECT_SUCCESS, "inject">>, <<A2A_CALL, "a2a">>}

\* event = create_aigp_event(event_type, event_category, agent_id, trace_id, **optional)
CallCreateEvent ==
    /\ pureCall = <<>>
    /\ \E kind \in EventKinds,
          policy_version \in OptionalArguments.policy_version,
          template_rendered \in OptionalArguments.template_rendered,
          severity \in OptionalArguments.severity,
          hash_type \in OptionalArguments.hash_type,
          annotations \in OptionalArguments.annotations,
          governance_merkle_tree \in OptionalArguments.governance_merkle_tree :
          \E kw \in {[event_type |-> kind[1], event_category |-> kind[2],
                      agent_id |-> "agent.x", trace_id |-> <<"t">>]
                     @@ Keyword("policy_version", policy_version)
                     @@ Keyword("template_rendered", template_rendered)
                     @@ Keyword("severity", severity)
                     @@ Keyword("hash_type", hash_type)
                     @@ Keyword("annotations", annotations)
                     @@ Keyword("governance_merkle_tree", governance_merkle_tree)} :
             pureCall' = <<[fn |-> "create_aigp_event",
                            args |-> kw,
                            result |-> create_aigp_event(kw, uuid4(1), "now")]>>
    /\ UNCHANGED <<dispVars, signVars, propagation>>

EventNext == CallCreateEvent \/ PureReturn
EventInit == Init /\ ~event_callback /\ ~openlineage_callback
EventSpec == EventInit /\ [][EventNext]_vars

\* entries of a tracestate header: two of other vendors, one of them
\* surrounded by whitespace, and two under the aigp key
HeaderEntries ==
    { <<"d","d","=","s",":","1">>,
      <<" ","b","=","2"," ">>,
      <<"a","i","g","p","=","c","l","s",":","p","u","b">>,
      <<" ","a","i","g","p","=","p","o","l",":","o","l","d">> }

\* tracestate headers of up to MaxEntries entries
Headers == {join(<<",">>, es) : es \in SeqsUpTo(HeaderEntries, MaxEntries)}

\* the four standard classification levels, none, and one that is not standard
Classifications ==
    {pair[1] : pair \in ClassificationAbbrev} \cup {<<>>, <<"s","e","c","r","e","t">>}

\* further classifications that are not standard: one that is an
\* abbreviation, one that begins with one, and one that holds the separator
\* of parts
EncodedClassifications ==
    Classifications
    \cup {<<"p","u","b">>, <<"c","o","n","t","r","o","l">>, <<"s",";","x">>}

\* policy names: none, a plain one, one holding the separator of key and
\* value, and names holding a separator of parts or of entries, or ending
\* in whitespace
PolicyNames ==
    { <<>>,
      <<"p","o","l","i","c","y",".","x">>,
      <<"p",":","q">>,
      <<"p",";","v","e","r",":","9">>,
      <<"p",",","a","i","g","p","=","x">>,
      <<"p"," ">> }

PolicyVersions == {0, 4, 12}

\* header = AIGPTraceState.inject_into_tracestate(existing_tracestate, ...)
CallInject ==
    /\ pureCall = <<>>
    /\ \E existing_tracestate \in Headers, data_classification \in Classifications,
          policy_name \in PolicyNames, policy_version \in PolicyVersions :
          pureCall' = <<[fn |-> "inject_into_tracestate",
                         args |-> <<existing_tracestate, data_classification,
                                    policy_name, policy_version>>,
                         result |-> inject_into_tracestate(
                                        existing_tracestate, data_classification,
                                        policy_name, policy_version)]>>
    /\ UNCHANGED <<dispVars, signVars, propagation>>

\* AIGPTraceState.extract_from_tracestate(header), header being the one
\* inject_into_tracestate has just returned; injected keeps the arguments of
\* that call
ExtractInjected ==
    /\ pureCall # <<>>
    /\ pureCall[1].fn = "inject_into_tracestate"
    /\ pureCall' = <<[fn |-> "extract_from_tracestate",
                      args |-> <<pureCall[1].result>>,
                      injected |-> pureCall[1].args,
                      result |-> extract_from_tracestate(pureCall[1].result)]>>
    /\ UNCHANGED <<dispVars, signVars, propagation>>

\* AIGPTraceState.extract_from_tracestate(tracestate) on a header as received
CallExtract ==
    /\ pureCall = <<>>
    /\ \E tracestate \in Headers :
          pureCall' = <<[fn |-> "extract_from_tracestate",
                         args |-> <<tracestate>>,
                         injected |-> <<>>,
                         result |-> extract_from_tracestate(tracestate)]>>
    /\ UNCHANGED <<dispVars, signVars, propagation>>

\* value = AIGPTraceState.encode(data_classification, policy_name, policy_version)
CallEncode ==
    /\ pureCall = <<>>
    /\ \E data_classification \in EncodedClassifications, policy_name \in PolicyNames,
          policy_version \in PolicyVersions :
          pureCall' = <<[fn |-> "AIGPTraceState.encode",
                         args |-> <<data_classification, policy_name, policy_version>>,
                         result |-> AIGPTraceState_encode(
                                        data_classification, policy_name,
                                        policy_version)]>>
    /\ UNCHANGED <<dispVars, signVars, propagation>>

\* AIGPTraceState.decode(value), value being what encode has just returned;
\* encoded keeps the arguments of that call
DecodeEncoded ==
    /\ pureCall # <<>>
    /\ pureCall[1].fn = "AIGPTraceState.encode"
    /\ pureCall' = <<[fn |-> "AIGPTraceState.decode",
                      args |-> <<pureCall[1].result>>,
                      encoded |-> pureCall[1].args,
                      result |-> AIGPTraceState_decode(pureCall[1].result)]>>
    /\ UNCHANGED <<dispVars, signVars, propagation>>

TraceStateNext ==
    \/ CallInject
    \/ ExtractInjected
    \/ CallExtract
    \/ CallEncode
    \/ DecodeEncoded
    \/ PureReturn
TraceStateInit == Init /\ ~event_callback /\ ~openlineage_callback
TraceStateSpec == TraceStateInit /\ [][TraceStateNext]_vars

HashInit == Init
HashNext == CallLeafHash \/ CallMerkleRoot \/ CallBuild \/ PureReturn
HashSpec == HashInit /\ [][HashNext]_vars

-----------------------------------------------------------------------------
(* Signing scenarios: an event is signed, then presented to verification as
   returned, or with one field changed, or an unsigned event is presented *)

\* the event records handed to sign_event: a policy injection with an
\* annotation, a bare agent-to-agent call, and an event that already
\* carries signature fields
SignableEvents ==
    { create_aigp_event([event_type |-> INJECT_SUCCESS, event_category |-> "inject",
                         agent_id |-> "agent.x", trace_id |-> <<"t", "1">>,
                         governance_hash |-> compute_governance_hash(<<"c">>),
                         policy_name |-> <<"p", ".", "x">>, policy_version |-> 1,
                         annotations |-> [note |-> <<"n">>]], uuid4(1), "now"),
      create_aigp_event([event_type |-> A2A_CALL, event_category |-> "a2a",
                         agent_id |-> "agent.x", trace_id |-> <<>>,
                         event_signature |-> <<"o", "l", "d">>,
                         signature_key_id |-> "key.old"], uuid4(2), "now") }

KeyPairs == {1, 2}
PrivateKeyPems == {PrivateKeyPem(pair) : pair \in KeyPairs} \cup {NotPem}
PublicKeyPems == {PublicKeyPem(pair) : pair \in KeyPairs} \cup {NotPem}
KeyIds == {"", "key.a"}

IdleSigning ==
    [step |-> "", installed |-> TRUE, event |-> <<>>, event_after |-> <<>>,
     private_key_pem |-> NotPem, key_id |-> "", signed |-> <<>>,
     presented |-> <<>>, changed |-> "", public_key_pem |-> NotPem, verified |-> <<>>,
     first |-> None]

\* signed_event = sign_event(event, private_key_pem, key_id)
SignEvent ==
    /\ signing = <<>>
    /\ \E installed \in BOOLEAN, event \in SignableEvents,
          private_key_pem \in PrivateKeyPems, key_id \in KeyIds :
          \E call \in {sign_event(installed, [event |-> event], "event",
                                  private_key_pem, key_id, signatures)} :
             /\ signing' = <<[IdleSigning EXCEPT
                                !.step = "signed", !.installed = installed,
                                !.event = event, !.event_after = call.heap["event"],
                                !.private_key_pem = private_key_pem, !.key_id = key_id,
                                !.signed = IF call.outcome.raised THEN call.outcome
                                           ELSE Returned(call.heap[call.outcome.value[1]])]>>
             /\ signatures' = signatures \o call.made
    /\ UNCHANGED <<pureVars, dispVars, propagation>>

HasSigned == signing # <<>> /\ signing[1].step = "signed" /\ ~signing[1].signed.raised

\* sign_event has returned a record that was not signed before
HasSignedOnce == HasSigned /\ signing[1].first = None

\* signed_again = sign_event(signed_event, private_key_pem, key_id): the record
\* sign_event returned is signed with a second key; first keeps the record
\* as it was signed first
SignAgain ==
    /\ HasSignedOnce
    /\ \E private_key_pem \in PrivateKeyPems \ {NotPem}, key_id \in KeyIds :
          \E call \in {sign_event(TRUE, [event |-> signing[1].signed.value[1]], "event",
                                  private_key_pem, key_id, signatures)} :
             /\ signing' = <<[IdleSigning EXCEPT
                                !.step = "signed", !.installed = TRUE,
                                !.event = signing[1].signed.value[1],
                                !.event_after = call.heap["event"],
                                !.private_key_pem = private_key_pem, !.key_id = key_id,
                                !.signed = IF call.outcome.raised THEN call.outcome
                                           ELSE Returned(call.heap[call.outcome.value[1]]),
                                !.first = Some(signing[1].signed.value[1])]>>
             /\ signatures' = signatures \o call.made
    /\ UNCHANGED <<pureVars, dispVars, propagation>>

\* the signed event is presented as sign_event returned it
PresentSigned ==
    /\ HasSigned
    /\ signing' = <<[signing[1] EXCEPT !.step = "presented",
                                       !.presented = signing[1].signed.value[1]]>>
    /\ UNCHANGED <<pureVars, dispVars, signatures, propagation>>

\* another value of the same type for a field of an event
Changed(kind, v) ==
    CASE kind = "str" -> IF v = "tampered" THEN "" ELSE "tampered"
      [] kind = "chars" -> v \o <<"x">>
      [] kind = "int" -> v + 1
      [] kind = "bool" -> ~v
      [] kind = "dict" -> ("note" :> <<"x">>) @@ v

\* the signed event is presented with the value of one field changed
\* (event_signature is changed by ChangeToken)
ChangeField ==
    /\ HasSignedOnce
    /\ \E k \in DOMAIN signing[1].signed.value[1] \ {"event_signature"} :
          signing' = <<[signing[1] EXCEPT
                          !.step = "presented", !.changed = k,
                          !.presented = [signing[1].signed.value[1] EXCEPT
                                           ![k] = Changed(FieldKind[k], @)]]>>
    /\ UNCHANGED <<pureVars, dispVars, signatures, propagation>>

\* the segments of a token joined by "." again
Join(parts) ==
    LET Loop[i \in 0..Len(parts)] ==
            IF i = 0 THEN <<>>
            ELSE Loop[i - 1] \o (IF i = 1 THEN <<>> ELSE <<".">>) \o parts[i]
    IN  Loop[Len(parts)]

TokenChanges ==
    {"header", "payload", "payload_empty", "signature", "signature_padded", "signature_short",
     "signature_one_character", "two_segments", "four_segments", "empty"}

\* another value for event_signature, made from the token sign_event produced
ChangedToken(change, token) ==
    LET parts == Split(token, ".")
    IN  CASE change = "header" -> Join(<<parts[1] \o <<"A">>, parts[2], parts[3]>>)
          [] change = "payload" -> Join(<<parts[1], <<"e", "3", "0">>, parts[3]>>)
          [] change = "payload_empty" -> Join(<<parts[1], <<>>, parts[3]>>)
          [] change = "signature" ->
                Join(<<parts[1], parts[2], [parts[3] EXCEPT ![43] = "I"]>>)
          [] change = "signature_padded" ->
                Join(<<parts[1], parts[2], parts[3] \o <<"=", "=">>>>)
          [] change = "signature_short" ->
                Join(<<parts[1], parts[2], SubSeq(parts[3], 1, 84)>>)
          [] change = "signature_one_character" -> Join(<<parts[1], parts[2], <<"A">>>>)
          [] change = "two_segments" -> Join(<<parts[1], parts[2]>>)
          [] change = "four_segments" -> Join(<<parts[1], parts[2], parts[3], <<"A">>>>)
          [] change = "empty" -> <<>>

\* the signed event is presented with another event_signature, or without
\* the event_signature key
ChangeToken ==
    /\ HasSignedOnce
    /\ \/ \E change \in TokenChanges :
             signing' = <<[signing[1] EXCEPT
                             !.step = "presented", !.changed = "event_signature",
                             !.presented = [signing[1].signed.value[1] EXCEPT
                                              !.event_signature = ChangedToken(change, @)]]>>
       \/ signing' = <<[signing[1] EXCEPT
                          !.step = "presented", !.changed = "event_signature",
                          !.presented = [k \in DOMAIN signing[1].signed.value[1]
                                              \ {"event_signature"} |->
                                            signing[1].signed.value[1][k]]]>>
    /\ UNCHANGED <<pureVars, dispVars, signatures, propagation>>

\* an event that sign_event never saw is presented
PresentUnsigned ==
    /\ signing = <<>>
    /\ \E installed \in BOOLEAN, event \in SignableEvents :
          signing' = <<[IdleSigning EXCEPT !.step = "presented", !.installed = installed,
                                           !.event = event, !.presented = event]>>
    /\ UNCHANGED <<pureVars, dispVars, signatures, propagation>>

\* verify_event_signature(presented, public_key_pem)
VerifyEvent ==
    /\ signing # <<>>
    /\ signing[1].step = "presented"
    /\ \E public_key_pem \in PublicKeyPems :
          signing' = <<[signing[1] EXCEPT
                          !.step = "verified", !.public_key_pem = public_key_pem,
                          !.verified = verify_event_signature(signing[1].installed,
                                          signing[1].presented, public_key_pem,
                                          signatures)]>>
    /\ UNCHANGED <<pureVars, dispVars, signatures, propagation>>

SignNext ==
    \/ SignEvent
    \/ SignAgain
    \/ PresentSigned
    \/ ChangeField
    \/ ChangeToken
    \/ PresentUnsigned
    \/ VerifyEvent
\* signing does not involve the dispatcher: it is left without callbacks
SignInit == Init /\ ~event_callback /\ ~openlineage_callback
SignSpec == SignInit /\ [][SignNext]_vars

------------------------------------------------------------------------------
(* Baggage scenarios: a caller holds a Context, or none, under an ambient
   one, and injects, extracts and clears, handing each returned Context to
   the next operation *)

\* the operations of one scenario
MaxOps == 3

\* Contexts a caller starts from: nothing attached, a span attached, baggage
\* of another library, governance baggage of an upstream service, and baggage
\* in which somebody else has put a governance hash
Contexts ==
    { EmptyContext,
      [entries |-> {"span"}, baggage |-> None],
      [entries |-> {}, baggage |-> Some({<<"tenant", "t1">>})],
      [entries |-> {"span"},
       baggage |-> Some({<<AIGPAttributes.POLICY_NAME, "policy.upstream">>,
                         <<AIGPAttributes.DATA_CLASSIFICATION, "">>,
                         <<"tenant", "t1">>})],
      [entries |-> {},
       baggage |-> Some({<<AIGPAttributes.GOVERNANCE_HASH, "h">>,
                         <<AIGPAttributes.ORG_ID, "org.upstream">>})] }

StartPropagation ==
    /\ propagation = <<>>
    /\ \E current \in Contexts, ctx \in {None} \cup {Some(c) : c \in Contexts} :
          propagation' = <<[current |-> current, start |-> ctx, ctx |-> ctx,
                            ops |-> <<>>, args |-> <<"", "", "">>,
                            before |-> ctx_or_current(ctx, current),
                            result |-> {}]>>
    /\ UNCHANGED <<pureVars, dispVars, signVars>>

\* current_ctx = AIGPBaggage.inject(..., ctx=current_ctx)
BaggageInject ==
    /\ propagation # <<>> /\ Len(propagation[1].ops) < MaxOps
    /\ \E policy_name \in {"", "policy.trading"}, data_classification \in {"", "confidential"},
          org_id \in {"", "org.finco"} :
          propagation' = <<[propagation[1] EXCEPT
              !.ctx = Some(AIGPBaggage_inject(policy_name, data_classification, org_id,
                                              propagation[1].ctx, propagation[1].current)),
              !.ops = Append(@, "inject"),
              !.args = <<policy_name, data_classification, org_id>>,
              !.before = ctx_or_current(propagation[1].ctx, propagation[1].current),
              !.result = {}]>>
    /\ UNCHANGED <<pureVars, dispVars, signVars>>

\* result = AIGPBaggage.extract(ctx=current_ctx)
BaggageExtract ==
    /\ propagation # <<>> /\ Len(propagation[1].ops) < MaxOps
    /\ propagation' = <<[propagation[1] EXCEPT
          !.ops = Append(@, "extract"),
          !.args = <<"", "", "">>,
          !.before = ctx_or_current(propagation[1].ctx, propagation[1].current),
          !.result = AIGPBaggage_extract(propagation[1].ctx, propagation[1].current)]>>
    /\ UNCHANGED <<pureVars, dispVars, signVars>>

\* current_ctx = AIGPBaggage.clear(ctx=current_ctx)
BaggageClear ==
    /\ propagation # <<>> /\ Len(propagation[1].ops) < MaxOps
    /\ propagation' = <<[propagation[1] EXCEPT
          !.ctx = Some(AIGPBaggage_clear(propagation[1].ctx, propagation[1].current)),
          !.ops = Append(@, "clear"),
          !.args = <<"", "", "">>,
          !.before = ctx_or_current(propagation[1].ctx, propagation[1].current),
          !.result = {}]>>
    /\ UNCHANGED <<pureVars, dispVars, signVars>>

BaggageNext == StartPropagation \/ BaggageInject \/ BaggageExtract \/ BaggageClear
BaggageInit == Init /\ ~event_callback /\ ~openlineage_callback
BaggageSpec == BaggageInit /\ [][BaggageNext]_vars

-----------------------------------------------------------------------------
(* Properties of the dispatcher, checked under Spec and ConcSpec *)

\* the kinds of the emissions made for an event, in the order they were made
RECURSIVE KindsOf(_, _)
KindsOf(log, event_id) ==
    IF log = <<>> THEN <<>>
    ELSE IF Head(log).event_id = event_id
         THEN <<Head(log).kind>> \o KindsOf(Tail(log), event_id)
         ELSE KindsOf(Tail(log), event_id)

\* the call has built its event and gone on to emit it through _dual_emit
EnteredDualEmit(fr) == fr.pc # "idle" /\ fr.path = "_dual_emit"

\* C1: in sequential use, every call through the dual-emit path under a
\* non-empty trace_id emits its event, and the k-th such event of a trace
\* carries sequence_number k: the numbers of a trace are 1, 2, 3, ... without
\* gap or repeat, and each trace starts at 1 whatever the other traces hold.
C1_EventsNumberedPerTrace ==
    \A c \in Callers :
       LET fr == frame[c]
       IN  (EnteredDualEmit(fr) /\ fr.pc = "done" /\ fr.aigp_event.trace_id # <<>>) =>
              LET numbers == issued[fr.aigp_event.trace_id]
              IN  /\ ~ fr.result.raised
                  /\ numbers = [k \in 1..Len(numbers) |-> k]
                  /\ fr.result.value[1].sequence_number = Len(numbers)

\* C2: when calls under one trace_id interleave at the read, increment and
\* store steps of the counter, no two events receive the same
\* sequence_number, and once all calls have completed the numbers issued
\* for a trace are exactly 1..n and its counter holds n.
C2_ConcurrentNumbersDistinct ==
    \A t \in DOMAIN issued :
       LET numbers == issued[t]
       IN  /\ \A i, j \in 1..Len(numbers) : i # j => numbers[i] # numbers[j]
           /\ (\A c \in Callers : frame[c].pc \in {"idle", "done"}) =>
                 /\ {numbers[i] : i \in 1..Len(numbers)} = 1..Len(numbers)
                 /\ _sequence_counters[t] = Len(numbers)

\* C3: every governance method, multi_policy_inject included, that returns
\* an event under a non-empty trace_id returns it with sequence_number equal
\* to the counter the trace held before the call plus 1, and has stored that
\* value in the counter.
C3_EveryMethodNumbersItsEvent ==
    \A c \in Callers :
       LET fr == frame[c]
       IN  (fr.pc = "done" /\ ~ fr.result.raised
              /\ fr.result.value[1].trace_id # <<>>) =>
              /\ fr.result.value[1].sequence_number = fr.counter_at_call + 1
              /\ Get(_sequence_counters, fr.result.value[1].trace_id, 0)
                   = fr.counter_at_call + 1

\* C4: once a callback has raised during a call, the call goes on: the
\* exception does not reach the caller, the lineage callback is still invoked
\* when configured, the call returns its event, and the span annotation and
\* the sequence number already given to the event are still in place.
C4_CallbackFailureContained ==
    \A c \in Callers :
       LET fr == frame[c]
       IN  (fr.pc # "idle" /\ fr.failed # <<>>) =>
              /\ fr.pc \in {"openlineage_callback", "done"}
              /\ fr.pc = "done" =>
                    /\ fr.result = Returned(fr.aigp_event)
                    /\ openlineage_callback =>
                          \E i \in 1..Len(fr.emitted) :
                             fr.emitted[i].kind = "openlineage_callback"
              /\ \E i \in 1..Len(emitLog) :
                    emitLog[i] = Emission("span_event", fr.aigp_event.event_id)
              /\ fr.aigp_event.sequence_number # 0 =>
                    Get(_sequence_counters, fr.aigp_event.trace_id, 0)
                       >= fr.aigp_event.sequence_number

\* the event callback and then the lineage callback raised, and the call
\* returned its event all the same
C4_Witness ==
    \E c \in Callers :
       /\ frame[c].pc = "done"
       /\ frame[c].failed = <<"event_callback", "openlineage_callback">>
       /\ frame[c].result = Returned(frame[c].aigp_event)

\* C5: with both callbacks configured, every call that has built its event
\* makes the three emissions exactly once each and in the order span
\* annotation, event callback, lineage callback, whether it goes through
\* _dual_emit or is multi_policy_inject, and whatever other calls interleave.
C5_EmissionsInFixedOrder ==
    \A c \in Callers :
       LET fr == frame[c]
       IN  (event_callback /\ openlineage_callback
              /\ fr.pc = "done" /\ fr.path # "") =>
              KindsOf(emitLog, fr.aigp_event.event_id)
                 = <<"span_event", "event_callback", "openlineage_callback">>

-----------------------------------------------------------------------------
(* Properties of the pure functions, checked under HashSpec *)

LeafHashCall == pureCall # <<>> /\ pureCall[1].fn = "compute_leaf_hash"
MerkleRootCall == pureCall # <<>> /\ pureCall[1].fn = "_compute_merkle_root"
BuildCall == pureCall # <<>> /\ pureCall[1].fn = "compute_merkle_governance_hash"

Permuted(list, f) == [i \in 1..Len(list) |-> list[f[i]]]

\* lowercase kebab-case: the language of ^[a-z][a-z0-9]*(-[a-z0-9]+)*$
IsKebabCase(s) ==
    /\ Len(s) >= 1
    /\ s[1] \in Lower
    /\ \A i \in 1..Len(s) : s[i] \in Lower \cup Digit \cup {"-"}
    /\ s[Len(s)] # "-"
    /\ \A i \in 1..(Len(s) - 1) : ~(s[i] = "-" /\ s[i + 1] = "-")

\* the hashable value of a resource: content, or content_ref in pointer mode
ResourceHashMode(r) ==
    IF r.form = "tuple" THEN "content" ELSE Get(r.fields[1], "hash_mode", "content")
ResourceHashable(r) ==
    IF r.form = "tuple" THEN r.items[3]
    ELSE IF ResourceHashMode(r) = "pointer" THEN Get(r.fields[1], "content_ref", <<>>)
    ELSE Get(r.fields[1], "content", <<>>)
ResourceType(r) == IF r.form = "tuple" THEN r.items[1] ELSE r.fields[1]["resource_type"]

\* the same resource under another resource_type and resource_name
Renamed(r, t, n) ==
    IF r.form = "tuple" THEN TupleResource(t, n, r.items[3])
    ELSE DictResource([k \in DOMAIN r.fields[1] |->
                          IF k = "resource_type" THEN t
                          ELSE IF k = "resource_name" THEN n
                          ELSE r.fields[1][k]])

IsValidResource(r) ==
    /\ IsKebabCase(ResourceType(r))
    /\ ResourceHashMode(r) = "pointer" => ResourceHashable(r) # <<>>

\* C6: for every list of two or more resources and every permutation of it,
\* compute_merkle_governance_hash returns the same root hash and the same
\* sorted sequence of leaf hashes (and raises for one order only if it
\* raises for every order).
C6_BuildOrderIndependent ==
    (BuildCall /\ Len(pureCall[1].args) >= 2) =>
        LET resources == pureCall[1].args
            result == pureCall[1].result
        IN  \A f \in Permutations(1..Len(resources)) :
                LET other == compute_merkle_governance_hash(Permuted(resources, f))
                IN  /\ other.raised = result.raised
                    /\ ~result.raised =>
                          /\ other.value[1][1] = result.value[1][1]
                          /\ Hashes(other.value[1][2][1].leaves)
                                = Hashes(result.value[1][2][1].leaves)

\* C6 witness: a tree was built from three or more resources that were not
\* handed over in the order of their leaf hashes.
C6_Witness ==
    /\ BuildCall
    /\ Len(pureCall[1].args) >= 3
    /\ ~pureCall[1].result.raised
    /\ LET resources == pureCall[1].args
           normalized == [i \in 1..Len(resources) |-> _normalize_resource(resources[i])]
       IN  Hashes(LeafLoop(normalized, <<>>).value[1])
             # Hashes(pureCall[1].result.value[1][2][1].leaves)

IsSortedHashes(hashes) ==
    \A i \in 1..(Len(hashes) - 1) : ~StrLess(hashes[i + 1], hashes[i])

\* the level above a level: positions (1,2), (3,4), ... combined, the last
\* element of an odd-sized level carried unchanged
PromotedLevel(level) ==
    [k \in 1..((Len(level) + 1) \div 2) |->
        IF 2 * k <= Len(level)
        THEN Sha256(level[2 * k - 1] \o level[2 * k])
        ELSE level[2 * k - 1]]

RECURSIVE PromotedRoot(_)
PromotedRoot(level) ==
    IF Len(level) = 1 THEN level[1] ELSE PromotedRoot(PromotedLevel(level))

\* C7: for every sorted list of n >= 2 leaf hashes the root is the fold of
\* the levels, left to right, the last element of an odd-sized level carried
\* unchanged; for three leaves it is digest(digest(L1||L2)||L3) and differs
\* from digest(digest(L1||L2)||digest(L3||L3)).
C7_RootPromotesOddNode ==
    (MerkleRootCall /\ Len(pureCall[1].args) >= 2 /\ IsSortedHashes(pureCall[1].args)) =>
        LET L == pureCall[1].args
            result == pureCall[1].result
        IN  /\ ~result.raised
            /\ result.value[1] = PromotedRoot(L)
            /\ Len(L) = 2 => result.value[1] = Sha256(L[1] \o L[2])
            /\ Len(L) = 3 =>
                  /\ result.value[1] = Sha256(Sha256(L[1] \o L[2]) \o L[3])
                  /\ result.value[1] # Sha256(Sha256(L[1] \o L[2]) \o Sha256(L[3] \o L[3]))
            /\ Len(L) = 4 =>
                  result.value[1] = Sha256(Sha256(L[1] \o L[2]) \o Sha256(L[3] \o L[4]))
            /\ Len(L) = 5 =>
                  result.value[1] =
                      Sha256(Sha256(Sha256(L[1] \o L[2]) \o Sha256(L[3] \o L[4])) \o L[5])

\* C7 witness: the root of three distinct sorted leaf hashes was computed.
C7_Witness ==
    /\ MerkleRootCall
    /\ Len(pureCall[1].args) = 3
    /\ StrLess(pureCall[1].args[1], pureCall[1].args[2])
    /\ StrLess(pureCall[1].args[2], pureCall[1].args[3])
    /\ ~pureCall[1].result.raised

\* C8: for every list of exactly one resource compute_merkle_governance_hash
\* returns (digest(hashable), None), hashable being the content in content
\* mode and the content_ref in pointer mode; the result is the same under
\* every other resource_type and resource_name.
C8_SingleResourceFlatHash ==
    (BuildCall /\ Len(pureCall[1].args) = 1) =>
        LET r == pureCall[1].args[1]
            result == pureCall[1].result
        IN  /\ result = Returned(<<Sha256(ResourceHashable(r)), None>>)
            /\ \A t \in ResourceTypes, n \in ResourceNames :
                  compute_merkle_governance_hash(<<Renamed(r, t, n)>>) = result

\* C8 witness: a single pointer-mode resource was hashed to the digest of its
\* content_ref, with no tree.
C8_Witness ==
    /\ BuildCall
    /\ Len(pureCall[1].args) = 1
    /\ ResourceHashMode(pureCall[1].args[1]) = "pointer"
    /\ ResourceHashable(pureCall[1].args[1]) # <<>>
    /\ pureCall[1].result = Returned(<<Sha256(ResourceHashable(pureCall[1].args[1])), None>>)

\* C9: compute_merkle_governance_hash returns a hash only when the list is
\* non-empty and every resource in it is valid; it raises for an empty list,
\* for a resource_type that is not kebab-case and for a pointer-mode resource
\* with an empty content_ref, whether the list holds one resource or several.
C9_BuildValidatesEveryResource ==
    BuildCall =>
        (pureCall[1].result.raised <=>
            \/ pureCall[1].args = <<>>
            \/ \E i \in 1..Len(pureCall[1].args) : ~IsValidResource(pureCall[1].args[i]))

\* C10: compute_leaf_hash raises "Invalid resource_type" for every
\* resource_type that is not kebab-case, raises "content_ref is required" in
\* pointer mode with an empty content_ref, and otherwise returns the digest of
\* type:name:content, or of type:name:content_ref in pointer mode.
C10_LeafHashValidatesThenHashes ==
    LeafHashCall =>
        LET t == pureCall[1].args[1]
            n == pureCall[1].args[2]
            c == pureCall[1].args[3]
            m == pureCall[1].args[4]
            r == pureCall[1].args[5]
            result == pureCall[1].result
        IN  IF ~IsKebabCase(t)
            THEN result = Raised("ValueError", "Invalid resource_type")
            ELSE IF m = "pointer" /\ r = <<>>
            THEN result = Raised("ValueError",
                                 "content_ref is required when hash_mode='pointer'")
            ELSE IF m = "pointer"
            THEN result = Returned(Sha256(t \o <<":">> \o n \o <<":">> \o r))
            ELSE result = Returned(Sha256(t \o <<":">> \o n \o <<":">> \o c))

\* the leaf hash of a resource: the digest of type:name:hashable
ResourceName(r) == IF r.form = "tuple" THEN r.items[2] ELSE r.fields[1]["resource_name"]
LeafHashOf(r) ==
    Sha256(ResourceType(r) \o <<":">> \o ResourceName(r) \o <<":">> \o ResourceHashable(r))

\* C11: for every list of n >= 2 resources for which build returns, the tree
\* carries the algorithm tag "sha256", leaf_count = n = number of leaves (equal
\* resources are not merged), one leaf per input resource holding that
\* resource's type, name and leaf hash, the leaves ascending by hash, and the
\* root is the Merkle root of the leaf hashes in that order.
C11_TreeHoldsOneLeafPerResource ==
    (BuildCall /\ Len(pureCall[1].args) >= 2 /\ ~pureCall[1].result.raised) =>
        LET resources == pureCall[1].args
            n == Len(resources)
            root == pureCall[1].result.value[1][1]
            tree == pureCall[1].result.value[1][2]
        IN  /\ tree # None
            /\ tree[1].algorithm = "sha256"
            /\ tree[1].leaf_count = n
            /\ Len(tree[1].leaves) = n
            /\ \E f \in Permutations(1..n) :
                  \A i \in 1..n :
                     /\ tree[1].leaves[i].hash = LeafHashOf(resources[f[i]])
                     /\ tree[1].leaves[i].resource_type = ResourceType(resources[f[i]])
                     /\ tree[1].leaves[i].resource_name = ResourceName(resources[f[i]])
            /\ IsSortedHashes(Hashes(tree[1].leaves))
            /\ root = PromotedRoot(Hashes(tree[1].leaves))

\* C11 witness: a tree was built from three resources two of which are equal,
\* and it holds three leaves.
C11_Witness ==
    /\ BuildCall
    /\ Len(pureCall[1].args) = 3
    /\ pureCall[1].args[1] = pureCall[1].args[3]
    /\ pureCall[1].args[1] # pureCall[1].args[2]
    /\ ~pureCall[1].result.raised
    /\ pureCall[1].result.value[1][2][1].leaf_count = 3


\* C12: for every content (and every content_ref in pointer mode), the leaf
\* hash returned for a resource differs from the leaf hash returned for the
\* same content under any other accepted resource_type with the same name,
\* and from the one returned under any other resource_name with the same type.
C12_LeafHashSeparatesDomains ==
    (LeafHashCall /\ ~pureCall[1].result.raised) =>
        LET t == pureCall[1].args[1]
            n == pureCall[1].args[2]
            c == pureCall[1].args[3]
            m == pureCall[1].args[4]
            r == pureCall[1].args[5]
            result == pureCall[1].result
        IN  /\ \A t2 \in ResourceTypes \ {t} :
                  LET other == compute_leaf_hash(t2, n, c, m, r)
                  IN  ~other.raised => other.value[1] # result.value[1]
            /\ \A n2 \in ResourceNames \ {n} :
                  compute_leaf_hash(t, n2, c, m, r).value[1] # result.value[1]

\* C12 witness: a leaf hash was returned for a content that another accepted
\* resource_type and another resource_name also hash.
C12_Witness ==
    /\ LeafHashCall
    /\ ~pureCall[1].result.raised
    /\ pureCall[1].args[3] # <<>>
    /\ \E t2 \in ValidTypes \ {pureCall[1].args[1]} :
          ~compute_leaf_hash(t2, pureCall[1].args[2], pureCall[1].args[3],
                             pureCall[1].args[4], pureCall[1].args[5]).raised
    /\ ResourceNames \ {pureCall[1].args[2]} # {}

-----------------------------------------------------------------------------
(* Properties of signing and verification, checked under SignSpec *)

\* sign_event returned a signed event
Signed == signing # <<>> /\ signing[1].private_key_pem.pem = "EC PRIVATE KEY"
                         /\ signing[1].installed
\* verify_event_signature has been called on the presented event
Verified == signing # <<>> /\ signing[1].step = "verified"
\* ... with the public key of the pair whose private key signed
MatchingKey == signing[1].public_key_pem = PublicKeyPem(signing[1].private_key_pem.pair)
\* ... with the public key of another pair
OtherKey == /\ signing[1].public_key_pem.pem = "PUBLIC KEY"
            /\ signing[1].public_key_pem.pair # signing[1].private_key_pem.pair

\* C13: for every event record, key pair and key_id, verification of the
\* record sign_event returned is True under the public key of the signing
\* pair and False under the public key of any other pair.
C13_SignThenVerify ==
    (Signed /\ Verified /\ signing[1].changed = "") =>
        /\ MatchingKey => signing[1].verified = Returned(TRUE)
        /\ OtherKey => signing[1].verified = Returned(FALSE)

\* C13 witness: an event signed with a key_id was verified under the
\* matching public key, and the result was True.
C13_Witness ==
    /\ Signed /\ Verified /\ MatchingKey
    /\ signing[1].changed = ""
    /\ signing[1].key_id # ""
    /\ signing[1].verified = Returned(TRUE)

\* C14 as claimed: for a signed record and its matching public key, changing
\* the value of any single field of the record makes verification False.
C14_AnyChangedFieldFailsVerification ==
    (Signed /\ Verified /\ MatchingKey /\ signing[1].changed # "") =>
        signing[1].verified = Returned(FALSE)

\* C14: for a signed record and its matching public key, changing the value
\* of any single field other than event_signature and signature_key_id
\* (hash-related or not) makes verification False; changing signature_key_id,
\* which the canonical form leaves out, leaves it True.
C14_ChangedSignedFieldFailsVerification ==
    (Signed /\ Verified /\ MatchingKey) =>
        /\ signing[1].changed \notin {"", "event_signature", "signature_key_id"} =>
              signing[1].verified = Returned(FALSE)
        /\ signing[1].changed = "signature_key_id" =>
              signing[1].verified = Returned(TRUE)

\* C14 witness: the severity of a signed record, a field no hash covers, was
\* changed, and verification under the matching key was False.
C14_Witness ==
    /\ Signed /\ Verified /\ MatchingKey
    /\ signing[1].changed = "severity"
    /\ signing[1].presented.severity # signing[1].signed.value[1].severity
    /\ signing[1].verified = Returned(FALSE)

\* the record was presented with its annotations changed and nothing else
AnnotationsChanged ==
    /\ Signed
    /\ signing[1].step \in {"presented", "verified"}
    /\ signing[1].changed = "annotations"

\* C15 as claimed: two records that differ only in annotations have the same
\* canonical form, so changing the annotations of a signed record leaves the
\* result of verification unchanged.
C15_AnnotationsNotSigned ==
    AnnotationsChanged =>
        /\ _canonical_json(signing[1].presented) = _canonical_json(signing[1].signed.value[1])
        /\ (Verified /\ MatchingKey) => signing[1].verified = Returned(TRUE)

\* C15: annotations is part of what is signed: two records that differ only
\* in annotations have different canonical forms, and changing the
\* annotations of a signed record makes verification under the matching key
\* False.
C15_AnnotationsSigned ==
    AnnotationsChanged =>
        /\ _canonical_json(signing[1].presented) # _canonical_json(signing[1].signed.value[1])
        /\ (Verified /\ MatchingKey) => signing[1].verified = Returned(FALSE)

\* C15 witness: a signed record that held an annotation was verified under
\* the matching key with the annotation changed.
C15_Witness ==
    /\ AnnotationsChanged /\ Verified /\ MatchingKey
    /\ signing[1].signed.value[1].annotations = [note |-> <<"n">>]
    /\ signing[1].presented.annotations = [note |-> <<"x">>]

\* C16: sign_event leaves its input as it was, event_signature and
\* signature_key_id included, also when it raises; the record it returns has
\* the fields of the input with the input's values, except event_signature,
\* a non-empty token of exactly three segments separated by ".", and
\* signature_key_id, which is key_id.
C16_SignReturnsCopy ==
    (signing # <<>> /\ signing[1].private_key_pem.pem = "EC PRIVATE KEY") =>
        LET event == signing[1].event
            signed_event == signing[1].signed.value[1]
        IN  /\ signing[1].event_after = event
            /\ ~signing[1].signed.raised =>
                  /\ DOMAIN signed_event = DOMAIN event
                  /\ \A k \in DOMAIN event \ {"event_signature", "signature_key_id"} :
                        signed_event[k] = event[k]
                  /\ signed_event.event_signature # <<>>
                  /\ Len(Split(signed_event.event_signature, ".")) = 3
                  /\ signed_event.signature_key_id = signing[1].key_id

\* C16 witness: an event that already carried a signature and a key id was
\* signed again under another key id; it still carries the old ones.
C16_Witness ==
    /\ Signed
    /\ signing[1].event.event_signature = <<"o", "l", "d">>
    /\ signing[1].key_id = "key.a"
    /\ signing[1].event_after.event_signature = <<"o", "l", "d">>
    /\ signing[1].event_after.signature_key_id = "key.old"
    /\ signing[1].signed.value[1].signature_key_id = "key.a"

\* the signature segment of the presented token decodes to 64 bytes
SignatureIs64Bytes ==
    \E parts \in {Split(signing[1].presented.event_signature, ".")} :
       /\ Len(parts) = 3
       /\ \E signature_b64 \in {parts[3]} :
             \E sig_bytes \in {_base64url_decode(signature_b64)} :
                ~sig_bytes.raised /\ Len(sig_bytes.value[1]) = 64

\* C17: where the cryptography package is installed, verify_event_signature
\* never raises: it returns True or False, and it returns False when the
\* record has no event_signature or an empty one, when the token does not
\* consist of exactly three segments, when the decoded signature is not
\* exactly 64 bytes, and when the key cannot be loaded.
C17_VerifyReturnsFalseNeverRaises ==
    (Verified /\ signing[1].installed) =>
        /\ signing[1].verified \in {Returned(TRUE), Returned(FALSE)}
        /\ ( \/ "event_signature" \notin DOMAIN signing[1].presented
             \/ signing[1].presented.event_signature = <<>>
             \/ ~SignatureIs64Bytes
             \/ signing[1].public_key_pem.pem # "PUBLIC KEY" ) =>
              signing[1].verified = Returned(FALSE)

\* C17 witness: a token whose signature segment is not valid base64 was
\* presented, and verification returned False.
C17_Witness ==
    /\ Verified /\ Signed
    /\ signing[1].changed = "event_signature"
    /\ "event_signature" \in DOMAIN signing[1].presented
    /\ \E parts \in {Split(signing[1].presented.event_signature, ".")} :
          /\ Len(parts) = 3
          /\ \E signature_b64 \in {parts[3]} : _base64url_decode(signature_b64).raised
    /\ signing[1].verified = Returned(FALSE)

-----------------------------------------------------------------------------
(* Properties of the event record, checked under EventSpec *)

CreateEventCall == pureCall # <<>> /\ pureCall[1].fn = "create_aigp_event"

\* the fields every event holds
DeclaredFields ==
    {"event_id", "event_type", "event_category", "event_time", "agent_id",
     "governance_hash", "trace_id", "span_id", "parent_span_id", "trace_flags",
     "agent_name", "org_id", "org_name", "policy_id", "policy_name",
     "policy_version", "prompt_id", "prompt_name", "prompt_version", "hash_type",
     "data_classification", "template_rendered", "denial_reason",
     "violation_type", "severity", "source_ip", "request_method", "request_path",
     "query_hash", "previous_hash", "annotations", "event_signature",
     "signature_key_id", "sequence_number", "causality_ref", "spec_version"}

-----------------------------------------------------------------------------
(* Properties of the tracestate entry, checked under TraceStateSpec *)

InjectCall == pureCall # <<>> /\ pureCall[1].fn = "inject_into_tracestate"
ExtractCall == pureCall # <<>> /\ pureCall[1].fn = "extract_from_tracestate"

\* the entries of a header, each without its surrounding whitespace; the
\* empty header has none
EntriesOf(header) ==
    IF header = <<>> THEN <<>>
    ELSE LET split == Split(header, ",") IN [i \in DOMAIN split |-> strip(split[i])]

IsAigpEntry(entry) == startswith(entry, <<"a","i","g","p","=">>)
IsOtherEntry(entry) == ~IsAigpEntry(entry)

\* the positions of the entries under the vendor key aigp
AigpEntries(header) == {i \in DOMAIN EntriesOf(header) : IsAigpEntry(EntriesOf(header)[i])}

\* the entries of the other vendors, in order
OtherEntries(header) == Filter(EntriesOf(header), IsOtherEntry)

\* the value the arguments of an inject call encode to
EncodedValue(args) == AIGPTraceState_encode(args[2], args[3], args[4])

Holds(s, ch) == \E i \in 1..Len(s) : s[i] = ch

\* C19 as claimed: for every existing header and every argument
\* combination, the header inject returns holds at most one aigp entry;
\* when the encoded value is not empty, that entry is the first one and the
\* entries of the other vendors follow it in their original order.
C19_AtMostOneAigpEntry ==
    InjectCall =>
        \E header \in {pureCall[1].result}, encoded \in {EncodedValue(pureCall[1].args)} :
           /\ Cardinality(AigpEntries(header)) <= 1
           /\ encoded # <<>> =>
                 /\ AigpEntries(header) = {1}
                 /\ OtherEntries(header) = OtherEntries(pureCall[1].args[1])

\* C19: for every existing header and every argument combination whose
\* encoded value is not empty and holds no ",", the header inject returns
\* holds exactly one aigp entry, the encoded one, as its first entry, and the
\* entries of the other vendors follow it, without their surrounding
\* whitespace, in their original order; when the encoded value is empty,
\* inject returns the existing header as it is.
C19_OneAigpEntryFirst ==
    InjectCall =>
        \E header \in {pureCall[1].result}, encoded \in {EncodedValue(pureCall[1].args)} :
           /\ encoded = <<>> => header = pureCall[1].args[1]
           /\ (encoded # <<>> /\ ~Holds(encoded, ",")) =>
                 /\ AigpEntries(header) = {1}
                 /\ Split(header, ",")[1] = <<"a","i","g","p","=">> \o encoded
                 /\ OtherEntries(header) = OtherEntries(pureCall[1].args[1])

\* C19 witness: a header with an aigp entry between the entries of two other
\* vendors was injected into; the new entry comes first, the old one is
\* gone, the two others follow in order.
C19_Witness ==
    /\ InjectCall
    /\ pureCall[1].args[1] =
          <<"d","d","=","s",":","1">> \o <<",">>
          \o <<"a","i","g","p","=","c","l","s",":","p","u","b">> \o <<",">>
          \o <<" ","b","=","2"," ">>
    /\ pureCall[1].args[2] = <<"c","o","n","f","i","d","e","n","t","i","a","l">>
    /\ pureCall[1].args[3] = <<>>
    /\ pureCall[1].args[4] = 4
    /\ pureCall[1].result =
          <<"a","i","g","p","=","c","l","s",":","c","o","n",";","v","e","r",":","4">>
          \o <<",">> \o <<"d","d","=","s",":","1">> \o <<",">> \o <<"b","=","2">>

\* the dict the components c, p, v of an inject call decode to
ExpectedContext(c, p, v) ==
    (IF c # <<>> THEN "data_classification" :> c ELSE <<>>)
    @@ (IF p # <<>> THEN "policy_name" :> p ELSE <<>>)
    @@ (IF v > 0 THEN "policy_version" :> Decimal(v) ELSE <<>>)

\* extract was applied to the header an inject call returned, the call's
\* classification being a standard level or empty, its policy name free of
\* ";" and ",", and at least one component not empty
ExtractedInjected ==
    /\ ExtractCall
    /\ pureCall[1].injected # <<>>
    /\ pureCall[1].injected[2] \in {pair[1] : pair \in ClassificationAbbrev} \cup {<<>>}
    /\ ~Holds(pureCall[1].injected[3], ";")
    /\ ~Holds(pureCall[1].injected[3], ",")
    /\ \/ pureCall[1].injected[2] # <<>>
       \/ pureCall[1].injected[3] # <<>>
       \/ pureCall[1].injected[4] > 0

\* extract was applied to a header that holds no aigp entry
ExtractedAbsent ==
    /\ ExtractCall
    /\ pureCall[1].injected = <<>>
    /\ AigpEntries(pureCall[1].args[1]) = {}

\* C20 as claimed: for every standard or empty classification c, every policy
\* name p free of ";" and ",", and every version v >= 0, one of them not
\* empty, extract(inject(header, c, p, v)) holds exactly the keys of the
\* non-empty components, with c, p and the decimal string of v; extract of
\* a header with no aigp entry is the empty dict.
C20_ExtractInvertsInject ==
    /\ ExtractedInjected =>
          pureCall[1].result = ExpectedContext(pureCall[1].injected[2],
                                               pureCall[1].injected[3],
                                               pureCall[1].injected[4])
    /\ ExtractedAbsent => pureCall[1].result = <<>>

\* C20: as claimed, for policy names that, besides being free of ";" and
\* ",", do not end in whitespace.
C20_ExtractInvertsInjectOfTrimmedName ==
    /\ ( /\ ExtractedInjected
         /\ \/ pureCall[1].injected[3] = <<>>
            \/ pureCall[1].injected[3][Len(pureCall[1].injected[3])] \notin Whitespace ) =>
          pureCall[1].result = ExpectedContext(pureCall[1].injected[2],
                                               pureCall[1].injected[3],
                                               pureCall[1].injected[4])
    /\ ExtractedAbsent => pureCall[1].result = <<>>

\* C20 witness: classification "restricted", a policy name holding ":" and
\* version 12 were injected into a header that held an older aigp entry, and
\* extracted again.
C20_Witness ==
    /\ ExtractedInjected
    /\ AigpEntries(pureCall[1].injected[1]) # {}
    /\ pureCall[1].injected[2] = <<"r","e","s","t","r","i","c","t","e","d">>
    /\ pureCall[1].injected[3] = <<"p",":","q">>
    /\ pureCall[1].injected[4] = 12
    /\ pureCall[1].result =
          [data_classification |-> <<"r","e","s","t","r","i","c","t","e","d">>,
           policy_name |-> <<"p",":","q">>,
           policy_version |-> <<"1","2">>]

-----------------------------------------------------------------------------
(* Further properties of signing and verification, checked under SignSpec *)

\* the signed record was presented with the middle segment of its token
\* replaced, the other two segments being those sign_event produced
PayloadReplaced ==
    /\ Signed
    /\ signing[1].step \in {"presented", "verified"}
    /\ signing[1].changed = "event_signature"
    /\ "event_signature" \in DOMAIN signing[1].presented
    /\ \E parts \in {Split(signing[1].presented.event_signature, ".")},
          made \in {Split(signing[1].signed.value[1].event_signature, ".")} :
          /\ Len(parts) = 3
          /\ parts[1] = made[1]
          /\ parts[2] # made[2]
          /\ parts[3] = made[3]

\* C23: for a signed record, replacing the middle segment of event_signature
\* by another segment, the empty one included, leaves the result of
\* verify_event_signature as it is for the record sign_event returned, under
\* every public key.
C23_VerifyIgnoresEmbeddedPayload ==
    (PayloadReplaced /\ Verified) =>
        signing[1].verified =
            verify_event_signature(signing[1].installed, signing[1].signed.value[1],
                                   signing[1].public_key_pem, signatures)

\* C23 witness: a token with an empty middle segment was verified under the
\* matching public key, and the result was True.
C23_Witness ==
    /\ PayloadReplaced /\ Verified /\ MatchingKey
    /\ Split(signing[1].presented.event_signature, ".")[2] = <<>>
    /\ signing[1].verified = Returned(TRUE)

\* sign_event has just returned a record
JustSigned == Signed /\ signing[1].step = "signed" /\ ~signing[1].signed.raised

\* the record that was signed had itself been returned by sign_event
SignedAgain == Signed /\ signing[1].first # None /\ ~signing[1].signed.raised

\* C28: the canonical form of the record sign_event returns is the canonical
\* form of the record it was given; a signed record that is signed again
\* with a second key carries a token with the payload segment of the first
\* one, the key id of the second signing, and verifies under the second key.
C28_SignatureFieldsOutsidePayload ==
    /\ JustSigned =>
          _canonical_json(signing[1].signed.value[1]) = _canonical_json(signing[1].event)
    /\ (JustSigned /\ SignedAgain) =>
          /\ Split(signing[1].signed.value[1].event_signature, ".")[2]
                = Split(signing[1].first[1].event_signature, ".")[2]
          /\ signing[1].signed.value[1].signature_key_id = signing[1].key_id
    /\ (SignedAgain /\ Verified /\ signing[1].changed = "" /\ MatchingKey) =>
          signing[1].verified = Returned(TRUE)

\* C28 witness: a record signed with the first key pair under one key id was
\* signed again with the second pair under another, and verified under the
\* second public key.
C28_Witness ==
    /\ SignedAgain /\ Verified /\ MatchingKey
    /\ signing[1].changed = ""
    /\ signing[1].private_key_pem = PrivateKeyPem(2)
    /\ signing[1].first[1].signature_key_id = "key.a"
    /\ signing[1].key_id = ""
    /\ signing[1].presented.signature_key_id = ""
    /\ signing[1].presented.event_signature # signing[1].first[1].event_signature
    /\ signing[1].verified = Returned(TRUE)

-----------------------------------------------------------------------------
(* Further properties of the pure functions, checked under HashSpec *)

\* the arguments of a compute_leaf_hash call that returns
LeafArguments ==
    {a \in ResourceTypes \X ResourceNames \X Contents \X HashModes \X ContentRefs :
        ~compute_leaf_hash(a[1], a[2], a[3], a[4], a[5]).raised}

\* what is hashed after type and name: the content, or the content_ref in
\* pointer mode
HashableOf(a) == IF a[4] = "pointer" THEN a[5] ELSE a[3]

\* C27 as claimed: two resources that differ in resource_type, in
\* resource_name or in hashable value never have the same preimage
\* type:name:hashable (with the ideal digest: never the same leaf hash),
\* also when a name or a hashable value holds ":".
C27_PreimageDeterminesResource ==
    (LeafHashCall /\ ~pureCall[1].result.raised) =>
        \A a \in LeafArguments :
           compute_leaf_hash(a[1], a[2], a[3], a[4], a[5]) = pureCall[1].result =>
              /\ a[1] = pureCall[1].args[1]
              /\ a[2] = pureCall[1].args[2]
              /\ HashableOf(a) = HashableOf(pureCall[1].args)

\* C27: two resources with the same preimage have the same resource_type,
\* and the same resource_name and hashable value as well when neither name
\* holds ":"; a ":" in a name leaves the boundary between name and hashable
\* open, so p:n:x:c is the preimage of name "n:x" with "c" and of name "n"
\* with "x:c".
C27_PreimageDeterminesTypeAndPlainName ==
    (LeafHashCall /\ ~pureCall[1].result.raised) =>
        \A a \in LeafArguments :
           compute_leaf_hash(a[1], a[2], a[3], a[4], a[5]) = pureCall[1].result =>
              /\ a[1] = pureCall[1].args[1]
              /\ (~Holds(a[2], ":") /\ ~Holds(pureCall[1].args[2], ":")) =>
                    /\ a[2] = pureCall[1].args[2]
                    /\ HashableOf(a) = HashableOf(pureCall[1].args)
              /\ a[2] \o <<":">> \o HashableOf(a)
                    = pureCall[1].args[2] \o <<":">> \o HashableOf(pureCall[1].args)

\* C27 witness: the leaf hash of name "n" with content "x:c" was computed,
\* which name "n:x" with content "c" has too.
C27_Witness ==
    /\ LeafHashCall
    /\ pureCall[1].args = <<<<"p">>, <<"n">>, <<"x", ":", "c">>, "content", <<>>>>
    /\ pureCall[1].result
          = compute_leaf_hash(<<"p">>, <<"n", ":", "x">>, <<"c">>, "content", <<>>)
    /\ ~pureCall[1].result.raised

\* the levels _compute_merkle_root goes through, from the leaves on
RECURSIVE LevelsFrom(_)
LevelsFrom(level) ==
    IF Len(level) <= 1 THEN <<level>> ELSE <<level>> \o LevelsFrom(NextLevel(level))

\* the character between the brackets of a leaf hash
IsLeafMark(ch) == ch \notin {"[", "]"}

\* how often ch occurs in s
Occurrences(s, ch) == Cardinality({i \in 1..Len(s) : s[i] = ch})

\* C30: for every non-empty list of n leaf hashes _compute_merkle_root
\* returns; each level has ceil(m/2) entries, m being the size of the level
\* before, which is fewer; the root holds n - 1 digests of pairs besides the
\* n leaf hashes, each leaf hash as often as the list holds it and in the
\* order of the list; the root of a one-element list is that element.
C30_RootCombinesEveryLeafOnce ==
    (MerkleRootCall /\ Len(pureCall[1].args) >= 1) =>
        \E L \in {pureCall[1].args}, levels \in {LevelsFrom(pureCall[1].args)} :
           /\ ~pureCall[1].result.raised
           /\ \A k \in 2..Len(levels) :
                 /\ Len(levels[k]) = (Len(levels[k - 1]) + 1) \div 2
                 /\ Len(levels[k]) < Len(levels[k - 1])
           /\ Len(levels[Len(levels)]) = 1
           /\ pureCall[1].result.value[1] = levels[Len(levels)][1]
           /\ Occurrences(pureCall[1].result.value[1], "[") = Len(L) + (Len(L) - 1)
           /\ \A leaf \in LeafHashUniverse :
                 Occurrences(pureCall[1].result.value[1], leaf[2])
                    = Cardinality({i \in 1..Len(L) : L[i] = leaf})
           /\ Filter(pureCall[1].result.value[1], IsLeafMark) = [i \in 1..Len(L) |-> L[i][2]]
           /\ Len(L) = 1 => pureCall[1].result.value[1] = L[1]

\* C30 witness: the root of four leaf hashes, two of them equal, was
\* computed with three digests of pairs.
C30_Witness ==
    /\ MerkleRootCall
    /\ Len(pureCall[1].args) = 4
    /\ pureCall[1].args[1] = pureCall[1].args[4]
    /\ pureCall[1].args[1] # pureCall[1].args[2]
    /\ ~pureCall[1].result.raised
    /\ Occurrences(pureCall[1].result.value[1], "[") = 7

-----------------------------------------------------------------------------
(* Further properties of the tracestate entry, checked under TraceStateSpec *)

\* decode was applied to what encode returned for a classification
DecodedClassification ==
    /\ pureCall # <<>>
    /\ pureCall[1].fn = "AIGPTraceState.decode"
    /\ pureCall[1].encoded[1] # <<>>

StandardLevels == {pair[1] : pair \in ClassificationAbbrev}
Abbreviations == {pair[2] : pair \in ClassificationAbbrev}
LevelOf(abbrev) == (CHOOSE pair \in ClassificationAbbrev : pair[2] = abbrev)[1]

\* c[:3]
FirstThree(c) == SubSeq(c, 1, IF Len(c) < 3 THEN Len(c) ELSE 3)

\* C29 as claimed: for every classification c, decode(encode(c)) is a
\* standard level only if c is that level, and for a c outside the lookup
\* table it is the first three characters of c.
C29_DecodeYieldsLevelOnlyForLevel ==
    DecodedClassification =>
        /\ "data_classification" \in DOMAIN pureCall[1].result
        /\ pureCall[1].result.data_classification \in StandardLevels =>
              pureCall[1].result.data_classification = pureCall[1].encoded[1]
        /\ pureCall[1].encoded[1] \notin StandardLevels =>
              pureCall[1].result.data_classification = FirstThree(pureCall[1].encoded[1])

\* C29: for every classification c, decode(encode(c)) is c when c is a
\* standard level; otherwise, when the first three characters of c hold no
\* ";", it is the standard level those three characters abbreviate, if
\* they are an abbreviation, and those three characters if not.
C29_DecodeYieldsLevelOfAbbreviation ==
    DecodedClassification =>
        \E c \in {pureCall[1].encoded[1]} :
           /\ "data_classification" \in DOMAIN pureCall[1].result
           /\ c \in StandardLevels => pureCall[1].result.data_classification = c
           /\ (c \notin StandardLevels /\ ~Holds(FirstThree(c), ";")) =>
                 pureCall[1].result.data_classification =
                    IF FirstThree(c) \in Abbreviations
                    THEN LevelOf(FirstThree(c)) ELSE FirstThree(c)

\* C29 witness: "control", which is no standard level, was encoded and
\* decoded, and came back as "confidential".
C29_Witness ==
    /\ DecodedClassification
    /\ pureCall[1].encoded[1] = <<"c","o","n","t","r","o","l">>
    /\ pureCall[1].result.data_classification
          = <<"c","o","n","f","i","d","e","n","t","i","a","l">>

------------------------------------------------------------------------------
(* Properties of the baggage operations, checked under BaggageSpec *)

AllowListed == {"aigp.policy.name", "aigp.data.classification", "aigp.org.id"}
Forbidden == {"aigp.governance.hash", "aigp.denial.reason", "aigp.violation.type"}

KeysOf(context) == {item[1] : item \in get_all(context)}
ItemsOutside(keys, context) == {item \in get_all(context) : item[1] \notin keys}
ItemsUnder(key, context) == {item \in get_all(context) : item[1] = key}

\* the operation made last, and the Context the caller holds after it
LastOp(p) == IF p.ops = <<>> THEN "none" ELSE p.ops[Len(p.ops)]
HeldContext(p) == ctx_or_current(p.ctx, p.current)

\* inject has set the key to a non-empty argument and left it alone for an
\* empty one
Injected(p, key, argument) ==
    IF argument # ""
    THEN ItemsUnder(key, p.ctx[1]) = {<<key, argument>>}
    ELSE ItemsUnder(key, p.ctx[1]) = ItemsUnder(key, p.before)

\* C21: when neither the Context the caller starts from nor the ambient one
\* holds a forbidden key (governance hash, denial reason, violation type),
\* the Context held after any sequence of inject, extract and clear holds
\* none; inject and clear leave every entry outside the allow-list as it was,
\* inject sets exactly the allow-listed keys whose argument is non-empty,
\* extract returns only allow-listed entries of the Context it reads, and an
\* extract that follows a clear returns the empty map
C21_BaggageCarriesOnlyAllowListedKeys ==
    \A p \in {propagation[i] : i \in DOMAIN propagation} :
        /\ (/\ KeysOf(p.current) \cap Forbidden = {}
            /\ p.start # None => KeysOf(p.start[1]) \cap Forbidden = {})
           => KeysOf(HeldContext(p)) \cap Forbidden = {}
        /\ LastOp(p) \in {"inject", "clear"}
           => ItemsOutside(AllowListed, p.ctx[1]) = ItemsOutside(AllowListed, p.before)
        /\ LastOp(p) = "inject"
           => /\ Injected(p, "aigp.policy.name", p.args[1])
              /\ Injected(p, "aigp.data.classification", p.args[2])
              /\ Injected(p, "aigp.org.id", p.args[3])
        /\ LastOp(p) = "clear" => KeysOf(p.ctx[1]) \cap AllowListed = {}
        /\ LastOp(p) = "extract"
           => /\ {item[1] : item \in p.result} \subseteq AllowListed
              /\ p.result \subseteq get_all(p.before)
              /\ Len(p.ops) > 1 /\ p.ops[Len(p.ops) - 1] = "clear" => p.result = {}

\* a caller without a Context of its own, under an ambient one that carries
\* upstream governance baggage, has injected, cleared and extracted nothing
C21_Witness ==
    /\ propagation # <<>>
    /\ propagation[1].ops = <<"inject", "clear", "extract">>
    /\ propagation[1].start = None
    /\ "aigp.policy.name" \in KeysOf(propagation[1].current)
    /\ propagation[1].result = {}
    /\ KeysOf(propagation[1].ctx[1]) = {"tenant"}

------------------------------------------------------------------------------
(* Properties of the events the dispatcher returns, checked under Spec *)

\* the event a completed call has returned, if it returned one
ReturnedEvents(fr) ==
    IF fr.pc = "done" /\ ~ fr.result.raised THEN {fr.result.value[1]} ELSE {}

HasTree(e) == "governance_merkle_tree" \in DOMAIN e

\* the leaf hash of a (resource_type, resource_name, content) tuple
TupleLeafHash(resource) ==
    compute_leaf_hash(resource.items[1], resource.items[2], resource.items[3],
                      "content", <<>>).value[1]

\* the tree holds one leaf per resource, ascending by hash, and the hash is
\* the root folded from the leaves in that order
IsMerkleOf(e, resources) ==
    /\ HasTree(e)
    /\ \E tree \in {e.governance_merkle_tree} :
          /\ tree.leaf_count = Len(resources)
          /\ Len(tree.leaves) = Len(resources)
          /\ \A i \in 1..Len(resources) :
                Cardinality({j \in 1..Len(resources) :
                               TupleLeafHash(resources[j]) = TupleLeafHash(resources[i])})
                  = Cardinality({j \in 1..Len(tree.leaves) :
                               tree.leaves[j].hash = TupleLeafHash(resources[i])})
          /\ \A i \in 1..(Len(tree.leaves) - 1) :
                ~ StrLess(tree.leaves[i + 1].hash, tree.leaves[i].hash)
          /\ e.governance_hash = _compute_merkle_root(Hashes(tree.leaves)).value[1]

\* C22: an event multi_policy_inject returns for two or more per-resource
\* contents has the Merkle root of those resources as governance_hash,
\* hash_type 'merkle-sha256' and the tree with leaf_count equal to their
\* number; for none or one it has the flat digest of the combined content,
\* hash_type 'sha256' and no tree. In every event any method returns,
\* hash_type is 'merkle-sha256' exactly when governance_merkle_tree is present.
C22_MultiPolicyHashTypeMatchesTree ==
    \A c \in Callers : \A e \in ReturnedEvents(frame[c]) :
       /\ (e.hash_type = "merkle-sha256") <=> HasTree(e)
       /\ frame[c].args.method = "multi_policy_inject" =>
             IF Len(frame[c].args.resource_contents) >= 2
             THEN /\ e.hash_type = "merkle-sha256"
                  /\ IsMerkleOf(e, frame[c].args.resource_contents)
             ELSE /\ e.hash_type = "sha256"
                  /\ ~ HasTree(e)
                  /\ e.governance_hash = Sha256(frame[c].args.content)

\* multi_policy_inject has returned an event for two per-resource contents
C22_Witness ==
    \E c \in Callers : \E e \in ReturnedEvents(frame[c]) :
       /\ frame[c].args.method = "multi_policy_inject"
       /\ Len(frame[c].args.resource_contents) = 2
       /\ e.governance_merkle_tree.leaf_count = 2

\* the payloads a call has handed out under the kind
PayloadsOf(fr, kind) ==
    {fr.emitted[i].payload : i \in {j \in 1..Len(fr.emitted) : fr.emitted[j].kind = kind}}

\* C24: a call through _dual_emit writes sequence_number and causality_ref to
\* the record before it annotates the span and before either callback runs:
\* the call makes the span annotation and returns the record, the record
\* handed to the event callback carries the sequence_number and causality_ref
\* of the returned one, the sequence_number is the number issued to the call
\* (0 under an empty trace_id), and causality_ref is the reference the caller
\* supplied, the empty string when it supplied none.
C24_OrderingFieldsWrittenBeforeEmission ==
    \A c \in Callers :
       LET fr == frame[c]
       IN  (EnteredDualEmit(fr) /\ fr.pc = "done") =>
              /\ ~ fr.result.raised
              /\ PayloadsOf(fr, "span_event") # {}
              /\ fr.result.value[1].causality_ref = fr.args.causality_ref
              /\ fr.result.value[1].sequence_number
                    = (IF fr.aigp_event.trace_id = <<>> THEN 0 ELSE fr.current)
              /\ \A handed \in PayloadsOf(fr, "event_callback") :
                    /\ handed.sequence_number = fr.result.value[1].sequence_number
                    /\ handed.causality_ref = fr.result.value[1].causality_ref

\* no valid span is active under the name: no trace id or no span id
NoValidSpan(span) == Spans[span].trace_id = 0 \/ Spans[span].span_id = 0

\* the trace id of the span, as 32 hex digits
HexTraceId(span) == Format(Spans[span].trace_id, 32)

\* one step keeps each counter or has it changed by a call under that trace
CountersFramed ==
    /\ DOMAIN _sequence_counters \subseteq DOMAIN _sequence_counters'
    /\ <<>> \notin DOMAIN _sequence_counters'
    /\ \A t \in DOMAIN _sequence_counters' :
          _sequence_counters'[t] # Get(_sequence_counters, t, 0) =>
             \E c \in Callers :
                /\ frame[c].pc # "idle" /\ frame'[c] # frame[c]
                /\ ~ NoValidSpan(frame[c].args.span)
                /\ HexTraceId(frame[c].args.span) = t
    /\ \A c \in Callers :
          (frame'[c].pc = "done" /\ frame[c].pc # "done"
             /\ NoValidSpan(frame'[c].args.span)) =>
                /\ _sequence_counters' = _sequence_counters
                /\ frame'[c].counter_at_call = 0
                /\ \A e \in ReturnedEvents(frame'[c]) :
                      e.trace_id = <<>> /\ e.sequence_number = 0

\* C25: with no valid span active the event's trace_id is empty: however
\* many such calls are made, none of their steps changes the counter map, no
\* entry is made for the empty trace_id, and the event a call returns has
\* sequence_number 0; a step that changes the counter of a trace_id belongs to
\* a call under that trace_id, so no call changes the counter of another.
C25_CountersChangeOnlyUnderTheirTrace == [][CountersFramed]_vars

\* a call with no valid span has returned its event, unnumbered, after a call
\* under a valid span has been numbered
C25_Witness ==
    \E c \in Callers : \E e \in ReturnedEvents(frame[c]) :
       /\ NoValidSpan(frame[c].args.span)
       /\ e.sequence_number = 0
       /\ _sequence_counters # <<>>

\* the event_type holds a denial, violation or blocked marker
HasMarker(event_type) ==
    \E marker \in {DENIED, VIOLATION, BLOCKED} : Contains(event_type, marker)

\* the call leaves _emit_span_event and the status test in this step
PassesSpanEvent(c) ==
    /\ frame[c].pc = "span_event" /\ frame[c].path = "_dual_emit"
    /\ frame'[c].pc # "span_event"

\* what the step of a call past the span event has to do
SpanMarkedAsAnnotated(c) ==
    LET fr == frame[c]
        fails == /\ HasMarker(fr.aigp_event.event_type)
                 /\ fr.aigp_event.severity \in {"critical", "high"}
    IN  /\ spanStatus' = IF fails THEN [spanStatus EXCEPT ![fr.args.span] = "ERROR"]
                         ELSE spanStatus
        /\ PayloadsOf(frame'[c], "span_event") # {}
        /\ \A attrs \in PayloadsOf(frame'[c], "span_event") :
              attrs["aigp.enforcement.result"]
                 = (IF HasMarker(fr.aigp_event.event_type) THEN "denied" ELSE "allowed")

\* C26: a call through _dual_emit marks its span failed exactly when the
\* event_type holds a denial, violation or blocked marker and the severity is
\* critical or high, and annotates the span with enforcement_result 'denied'
\* exactly when the event_type holds such a marker, 'allowed' otherwise; no
\* other step changes the status of a span.
C26_SpanFailedExactlyForSevereDenials ==
    [][ /\ \A c \in Callers : PassesSpanEvent(c) => SpanMarkedAsAnnotated(c)
        /\ spanStatus' # spanStatus => \E c \in Callers : PassesSpanEvent(c) ]_vars

====
